---------------------------- MODULE Spec2Model ----------------------------
(***************************************************************************)
(* A model of the structured-response recovery parser parseAIResponse of   *)
(* the enrich-seo edge function                                            *)
(* (src/supabase/functions/enrich-seo/index.ts, lines 90-138; the same     *)
(* text is in src/unnamed/part_001, lines 211-259).                        *)
(*                                                                         *)
(* A text is a sequence of atoms.  An atom is one character, except that   *)
(* the words the parser looks for are single atoms: the code fence of      *)
(* three backquotes (FENCE),                                               *)
(* the language tag "json", the keys "seoTitle", "specs", "confident" and  *)
(* the literals "true" and "false".  The control characters line feed and  *)
(* carriage return are the atoms "LF" and "CR", the fence is "FENCE".      *)
(* The atoms "true" and                                                    *)
(* "false" occur only where a JSON literal stands, never inside a string.  *)
(***************************************************************************)
EXTENDS Naturals, Sequences, FiniteSets

LBRACE == "{"
RBRACE == "}"
QUOTE  == "\""
BSLASH == "\\"
COLON  == ":"
COMMA  == ","
SP     == " "
LF     == "LF"
CR     == "CR"
FENCE  == "FENCE"
DIGIT  == "1"

\* What the regular expression class \s matches, among the atoms.
Whitespace == {SP, LF, CR}

\* What the regular expression dot does not match without the s flag.
LineTerminators == {LF, CR}

(***************************************************************************)
(* Sequence helpers (String.prototype methods).                            *)
(***************************************************************************)
\* t.substring(from - 1, to): the atoms at 1-based positions from..to.
Sub(t, from, to) == IF from > to THEN <<>> ELSE SubSeq(t, from, to)

\* Whether the atoms of p stand in t at position i.
MatchAt(t, i, p) ==
    /\ i >= 1
    /\ i + Len(p) - 1 <= Len(t)
    /\ \A k \in 1..Len(p) : t[i + k - 1] = p[k]

\* t.indexOf(p, from - 1) + 1: the first position >= from where p stands in
\* t, 0 when there is none.
IndexOf(t, p, from) ==
    LET hits == {i \in from..Len(t) : MatchAt(t, i, p)}
    IN  IF hits = {} THEN 0 ELSE CHOOSE i \in hits : \A j \in hits : i <= j

\* Whether p stands somewhere in t.
Contains(t, p) == \E i \in 1..Len(t) : MatchAt(t, i, p)

\* The first position >= i of t that holds no whitespace (Len(t) + 1 when
\* there is none): what \s* consumes from i.
RECURSIVE SkipWs(_, _)
SkipWs(t, i) ==
    IF i <= Len(t) /\ t[i] \in Whitespace THEN SkipWs(t, i + 1) ELSE i

\* s.replace(/<a><b>/g, <by>) for a two-atom pattern: left to right, without
\* overlap.
RECURSIVE ReplacePair(_, _, _, _)
ReplacePair(s, a, b, by) ==
    IF s = <<>> THEN <<>>
    ELSE IF Len(s) >= 2 /\ s[1] = a /\ s[2] = b
         THEN by \o ReplacePair(Sub(s, 3, Len(s)), a, b, by)
         ELSE <<s[1]>> \o ReplacePair(Tail(s), a, b, by)

\* s.replace(/<a>/g, <by>) for a one-atom pattern.
RECURSIVE ReplaceOne(_, _, _)
ReplaceOne(s, a, by) ==
    IF s = <<>> THEN <<>>
    ELSE (IF s[1] = a THEN by ELSE <<s[1]>>) \o ReplaceOne(Tail(s), a, by)

(***************************************************************************)
(* Input normalisation, line 92:                                           *)
(*   text.replace(/FENCE json\s*/gi, '').replace(/FENCE\s*/g, '').trim()    *)
(***************************************************************************)
RECURSIVE StripJsonFence(_, _)
StripJsonFence(t, i) ==
    IF i > Len(t) THEN <<>>
    ELSE IF MatchAt(t, i, <<FENCE, "json">>)
         THEN StripJsonFence(t, SkipWs(t, i + 2))
         ELSE <<t[i]>> \o StripJsonFence(t, i + 1)

RECURSIVE StripFence(_, _)
StripFence(t, i) ==
    IF i > Len(t) THEN <<>>
    ELSE IF t[i] = FENCE
         THEN StripFence(t, SkipWs(t, i + 1))
         ELSE <<t[i]>> \o StripFence(t, i + 1)

RECURSIVE TrimEnd(_)
TrimEnd(t) ==
    IF t # <<>> /\ t[Len(t)] \in Whitespace
    THEN TrimEnd(Sub(t, 1, Len(t) - 1))
    ELSE t

Trim(t) == TrimEnd(Sub(t, SkipWs(t, 1), Len(t)))

Normalize(text) == Trim(StripFence(StripJsonFence(text, 1), 1))

(***************************************************************************)
(* Strict-bracket extraction, line 95: text.match(/\{[\s\S]*\}/).          *)
(* The span from the first "{" to the last "}" after it; <<>> stands for   *)
(* no match (a match holds at least the two braces).                       *)
(***************************************************************************)
\* A variant with the lazy pattern /\{[\s\S]*?\}/: the span ends at the first
\* "}" after the first "{".
JsonMatchLazy(t) ==
    LET first == IndexOf(t, <<LBRACE>>, 1)
        closers == {j \in 1..Len(t) : t[j] = RBRACE /\ j > first}
    IN  IF first = 0 \/ closers = {} THEN <<>>
        ELSE Sub(t, first, CHOOSE j \in closers : \A k \in closers : j <= k)

JsonMatch(t) ==
    LET first == IndexOf(t, <<LBRACE>>, 1)
        closers == {j \in 1..Len(t) : t[j] = RBRACE /\ j > first}
    IN  IF first = 0 \/ closers = {} THEN <<>>
        ELSE Sub(t, first, CHOOSE j \in closers : \A k \in closers : k <= j)

(***************************************************************************)
(* The quoted-string pattern (?:[^"\\]|\\.)*" of lines 101 and 117, from   *)
(* position i (just after the opening quote): the position of the closing  *)
(* quote, 0 when the pattern does not match.  dotAll is the s flag: with   *)
(* it the dot matches a line terminator as well.                           *)
(***************************************************************************)
RECURSIVE StringEnd(_, _, _)
StringEnd(t, i, dotAll) ==
    IF i > Len(t) THEN 0
    ELSE IF t[i] = QUOTE THEN i
    ELSE IF t[i] = BSLASH
         THEN IF i + 1 <= Len(t) /\ (dotAll \/ t[i + 1] \notin LineTerminators)
              THEN StringEnd(t, i + 2, dotAll)
              ELSE 0
         ELSE StringEnd(t, i + 1, dotAll)

(***************************************************************************)
(* Escape repair, lines 101-103: in every match of the quoted-string       *)
(* pattern, a line feed becomes \n and a carriage return \r.               *)
(***************************************************************************)
\* A variant that puts a space where the line break was.
EscapeNewlinesAsSpace(m) == ReplaceOne(ReplaceOne(m, LF, <<SP>>), CR, <<SP>>)

EscapeNewlines(m) ==
    ReplaceOne(ReplaceOne(m, LF, <<BSLASH, "n">>), CR, <<BSLASH, "r">>)

RECURSIVE RepairStrings(_, _)
RepairStrings(t, i) ==
    IF i > Len(t) THEN <<>>
    ELSE IF t[i] = QUOTE /\ StringEnd(t, i + 1, FALSE) > 0
         THEN LET e == StringEnd(t, i + 1, FALSE)
              IN  EscapeNewlines(Sub(t, i, e)) \o RepairStrings(t, e + 1)
         ELSE <<t[i]>> \o RepairStrings(t, i + 1)

(***************************************************************************)
(* JSON.parse (line 105), on the atoms.  The values the parser can meet:   *)
(* a string (its decoded atoms in s), a boolean (in b), a number, an       *)
(* object, and undefined for a member the object does not have.  Of the    *)
(* result object the members seoTitle, specs and confident are kept, the   *)
(* only ones the program reads; extra tells that it has other members.     *)
(* Of a nested object only its kind is kept.                               *)
(***************************************************************************)
StrV(s)   == [t |-> "string",    s |-> s,    b |-> FALSE]
BoolV(b)  == [t |-> "boolean",   s |-> <<>>, b |-> b]
NumV      == [t |-> "number",    s |-> <<>>, b |-> FALSE]
ObjV      == [t |-> "object",    s |-> <<>>, b |-> FALSE]
Undefined == [t |-> "undefined", s |-> <<>>, b |-> FALSE]

EmptyObj ==
    [seoTitle |-> Undefined, specs |-> Undefined, confident |-> Undefined,
     extra |-> FALSE]

\* obj[key] = v
Put(obj, key, v) ==
    IF key = <<"seoTitle">> THEN [obj EXCEPT !.seoTitle = v]
    ELSE IF key = <<"specs">> THEN [obj EXCEPT !.specs = v]
    ELSE IF key = <<"confident">> THEN [obj EXCEPT !.confident = v]
    ELSE [obj EXCEPT !.extra = TRUE]

\* A variant that tests v !== undefined.
TruthyDefined(v) == v.t # "undefined"

\* JavaScript truthiness: if (v).  The only number atom is the digit 1.
Truthy(v) ==
    \/ v.t = "string" /\ v.s # <<>>
    \/ v.t = "boolean" /\ v.b
    \/ v.t \in {"number", "object"}

\* The escapes of a JSON string that the atoms can spell, and what each
\* stands for.
EscapeChars == {QUOTE, BSLASH, "n", "r"}

Unescape(c) ==
    IF c = "n" THEN LF ELSE IF c = "r" THEN CR ELSE c

NoString == [end |-> 0, s |-> <<>>]

\* A JSON string literal from position i (just after its opening quote), acc
\* its content decoded so far: the position of the closing quote (0 when the
\* literal is malformed: unterminated, a raw control character, a bad
\* escape) and the decoded content.
RECURSIVE ScanString(_, _, _)
ScanString(t, i, acc) ==
    IF i > Len(t) THEN NoString
    ELSE IF t[i] = QUOTE THEN [end |-> i, s |-> acc]
    ELSE IF t[i] \in LineTerminators THEN NoString
    ELSE IF t[i] = BSLASH
         THEN IF i + 1 <= Len(t) /\ t[i + 1] \in EscapeChars
              THEN ScanString(t, i + 2, Append(acc, Unescape(t[i + 1])))
              ELSE NoString
         ELSE ScanString(t, i + 1, Append(acc, t[i]))

Tok(k, s) == [k |-> k, s |-> s]

RECURSIVE SkipDigits(_, _)
SkipDigits(t, i) ==
    IF i <= Len(t) /\ t[i] = DIGIT THEN SkipDigits(t, i + 1) ELSE i

\* The tokens of t from position i on, after acc; a last token of kind "bad"
\* tells that t is lexically no JSON.
RECURSIVE Lex(_, _, _)
Lex(t, i, acc) ==
    IF i > Len(t) THEN acc
    ELSE IF t[i] \in Whitespace THEN Lex(t, i + 1, acc)
    ELSE IF t[i] \in {LBRACE, RBRACE, COLON, COMMA, "true", "false"}
         THEN Lex(t, i + 1, Append(acc, Tok(t[i], <<>>)))
    ELSE IF t[i] = DIGIT
         THEN Lex(t, SkipDigits(t, i), Append(acc, Tok("number", <<>>)))
    ELSE IF t[i] = QUOTE
         THEN LET r == ScanString(t, i + 1, <<>>)
              IN  IF r.end = 0 THEN Append(acc, Tok("bad", <<>>))
                  ELSE Lex(t, r.end + 1, Append(acc, Tok("string", r.s)))
    ELSE Append(acc, Tok("bad", <<>>))

ParseFail == [ok |-> FALSE, next |-> 0, v |-> Undefined, obj |-> EmptyObj]

ParseOk(next, v, obj) == [ok |-> TRUE, next |-> next, v |-> v, obj |-> obj]

\* ParseValue: the JSON value that starts at token i; next is the token after
\* it, obj the members when the value is an object.  ParseMembers: the
\* members of an object from the key at token i on, obj those read so far.
RECURSIVE ParseValue(_, _)
RECURSIVE ParseMembers(_, _, _)
ParseValue(toks, i) ==
    IF i > Len(toks) THEN ParseFail
    ELSE IF toks[i].k = "string" THEN ParseOk(i + 1, StrV(toks[i].s), EmptyObj)
    ELSE IF toks[i].k = "number" THEN ParseOk(i + 1, NumV, EmptyObj)
    ELSE IF toks[i].k = "true" THEN ParseOk(i + 1, BoolV(TRUE), EmptyObj)
    ELSE IF toks[i].k = "false" THEN ParseOk(i + 1, BoolV(FALSE), EmptyObj)
    ELSE IF toks[i].k = LBRACE
         THEN IF i + 1 <= Len(toks) /\ toks[i + 1].k = RBRACE
              THEN ParseOk(i + 2, ObjV, EmptyObj)
              ELSE ParseMembers(toks, i + 1, EmptyObj)
    ELSE ParseFail

ParseMembers(toks, i, obj) ==
    IF i + 1 > Len(toks) \/ toks[i].k # "string" \/ toks[i + 1].k # COLON
    THEN ParseFail
    ELSE LET val == ParseValue(toks, i + 2)
         IN  IF ~val.ok \/ val.next > Len(toks) THEN ParseFail
             ELSE IF toks[val.next].k = RBRACE
                  THEN ParseOk(val.next + 1, ObjV, Put(obj, toks[i].s, val.v))
             ELSE IF toks[val.next].k = COMMA
                  THEN ParseMembers(toks, val.next + 1,
                                    Put(obj, toks[i].s, val.v))
             ELSE ParseFail

\* JSON.parse(t): ok is FALSE where JSON.parse throws a SyntaxError.
JSONParse(t) ==
    LET toks == Lex(t, 1, <<>>)
        r == ParseValue(toks, 1)
    IN  IF toks = <<>> \/ toks[Len(toks)].k = "bad" THEN ParseFail
        ELSE IF r.ok /\ r.next = Len(toks) + 1 THEN r
        ELSE ParseFail

(***************************************************************************)
(* The strict path, lines 95-113: bracket extraction, escape repair,       *)
(* JSON.parse, and the post-processing of specs.  ok is FALSE when there   *)
(* is no match or the try block throws (a SyntaxError of JSON.parse, or    *)
(* the TypeError of calling replace on a truthy specs that is no string),  *)
(* which the catch of line 110 swallows.                                   *)
(***************************************************************************)
\* result.specs.replace(/\\n/g, '\n'), line 107
SpecsNewlines(s) == ReplacePair(s, BSLASH, "n", <<LF>>)

StrictFail == [ok |-> FALSE, obj |-> EmptyObj]

StrictParse(t) ==
    LET jsonMatch == JsonMatch(t)
        parsed == JSONParse(RepairStrings(jsonMatch, 1))
    IN  IF jsonMatch = <<>> THEN StrictFail
        ELSE IF ~parsed.ok THEN StrictFail
        ELSE IF ~Truthy(parsed.obj.specs)
             THEN [ok |-> TRUE, obj |-> parsed.obj]
        ELSE IF parsed.obj.specs.t # "string" THEN StrictFail
        ELSE [ok |-> TRUE,
              obj |-> [parsed.obj EXCEPT
                         !.specs = StrV(SpecsNewlines(parsed.obj.specs.s))]]

(***************************************************************************)
(* Manual field extraction, lines 116-135.                                 *)
(***************************************************************************)
\* The pattern "key"\s*:\s*" at position i: the position just after it, 0
\* when it does not match there.
KeyValueStart(t, i, key) ==
    IF ~MatchAt(t, i, <<QUOTE, key, QUOTE>>) THEN 0
    ELSE LET c == SkipWs(t, i + 3)
             q == SkipWs(t, c + 1)
         IN  IF c <= Len(t) /\ t[c] = COLON /\ q <= Len(t) /\ t[q] = QUOTE
             THEN q + 1
             ELSE 0

\* A variant that only asks for a text that is not empty.
StartsWithAnything(t) == t # <<>>

\* text.startsWith('{'), line 116
StartsWithBrace(t) == t # <<>> /\ t[1] = LBRACE

\* text.match(/"seoTitle"\s*:\s*"((?:[^"\\]|\\.)*)"/s), line 117: the
\* leftmost match; group is its capture group 1.
SeoTitleMatch(t) ==
    LET starts == {i \in 1..Len(t) :
                     /\ KeyValueStart(t, i, "seoTitle") > 0
                     /\ StringEnd(t, KeyValueStart(t, i, "seoTitle"), TRUE) > 0}
        first == CHOOSE i \in starts : \A j \in starts : i <= j
        from == KeyValueStart(t, first, "seoTitle")
    IN  IF starts = {} THEN [found |-> FALSE, group |-> <<>>]
        ELSE [found |-> TRUE,
              group |-> Sub(t, from, StringEnd(t, from, TRUE) - 1)]

\* Lines 118-126: the specs text, from the end of the leftmost match of
\* "specs"\s*:\s*" up to the marker ", "confident", else up to "}, else to
\* the end of the text; empty when the pattern does not match.
ConfidentMarker == <<QUOTE, COMMA, SP, QUOTE, "confident", QUOTE>>
CloseMarker == <<QUOTE, RBRACE>>

\* A variant without line 124: a specs value that runs to the end of the
\* text is not taken.
SpecsEndNoEndOfText(t, specsStart) ==
    IF IndexOf(t, ConfidentMarker, specsStart) # 0
    THEN IndexOf(t, ConfidentMarker, specsStart)
    ELSE IF IndexOf(t, CloseMarker, specsStart) # 0
         THEN IndexOf(t, CloseMarker, specsStart)
         ELSE specsStart

\* A variant that stops at whichever of the two markers comes first.
SpecsEndEarliest(t, specsStart) ==
    LET found == {IndexOf(t, ConfidentMarker, specsStart),
                  IndexOf(t, CloseMarker, specsStart)} \ {0}
    IN  IF found = {} THEN Len(t) + 1
        ELSE CHOOSE i \in found : \A j \in found : i <= j

SpecsEnd(t, specsStart) ==
    IF IndexOf(t, ConfidentMarker, specsStart) # 0
    THEN IndexOf(t, ConfidentMarker, specsStart)
    ELSE IF IndexOf(t, CloseMarker, specsStart) # 0
         THEN IndexOf(t, CloseMarker, specsStart)
         ELSE Len(t) + 1

SpecsText(t) ==
    LET starts == {i \in 1..Len(t) : KeyValueStart(t, i, "specs") > 0}
        first == CHOOSE i \in starts : \A j \in starts : i <= j
        specsStart == KeyValueStart(t, first, "specs")
    IN  IF starts = {} THEN <<>>
        ELSE Sub(t, specsStart, SpecsEnd(t, specsStart) - 1)

\* Lines 129-133: the object the fallback returns.
ManualTitle(group) ==
    ReplacePair(ReplacePair(group, BSLASH, QUOTE, <<QUOTE>>),
                BSLASH, "n", <<SP>>)

\* A variant that writes a space for \n in specs, as in seoTitle.
ManualSpecsCollapsed(specs) ==
    ReplacePair(ReplacePair(specs, BSLASH, "n", <<SP>>),
                BSLASH, QUOTE, <<QUOTE>>)

ManualSpecs(specs) ==
    ReplacePair(ReplacePair(specs, BSLASH, "n", <<LF>>),
                BSLASH, QUOTE, <<QUOTE>>)

\* A variant that reports the fallback's result as confident.
ManualResultConfident(t) ==
    [seoTitle |-> StrV(ManualTitle(SeoTitleMatch(t).group)),
     specs |-> StrV(ManualSpecs(SpecsText(t))),
     confident |-> BoolV(TRUE),
     extra |-> FALSE]

ManualResult(t) ==
    [seoTitle |-> StrV(ManualTitle(SeoTitleMatch(t).group)),
     specs |-> StrV(ManualSpecs(SpecsText(t))),
     confident |-> BoolV(FALSE),
     extra |-> FALSE]

(***************************************************************************)
(* parseAIResponse, lines 90-138.  status is "returned" or "thrown"; path  *)
(* tells which return statement produced the value ("strict": line 109,    *)
(* "manual": line 129); error is the message of the Error of line 137.     *)
(***************************************************************************)
ErrorMessage ==
    <<"C", "o", "u", "l", "d", SP, "n", "o", "t", SP, "p", "a", "r", "s", "e",
      SP, "A", "I", SP, "r", "e", "s", "p", "o", "n", "s", "e">>

Returned(path, obj) ==
    [status |-> "returned", path |-> path, value |-> obj, error |-> <<>>]

Thrown ==
    [status |-> "thrown", path |-> "none", value |-> EmptyObj,
     error |-> ErrorMessage]

\* A variant in which the fallback is the else branch of if (jsonMatch).
parseAIResponseElseFallback(text) ==
    LET t == Normalize(text)
        strict == StrictParse(t)
    IN  IF strict.ok THEN Returned("strict", strict.obj)
        ELSE IF JsonMatch(t) = <<>> /\ StartsWithBrace(t)
                /\ SeoTitleMatch(t).found
             THEN Returned("manual", ManualResult(t))
             ELSE Thrown

\* Before the call has ended there is no outcome.
Pending ==
    [status |-> "pending", path |-> "none", value |-> EmptyObj, error |-> <<>>]

parseAIResponse(text) ==
    LET t == Normalize(text)
        strict == StrictParse(t)
    IN  IF strict.ok THEN Returned("strict", strict.obj)
        ELSE IF StartsWithBrace(t) /\ SeoTitleMatch(t).found
             THEN Returned("manual", ManualResult(t))
             ELSE Thrown

(***************************************************************************)
(* The inputs: the texts a provider call can hand to parseAIResponse.      *)
(* The prompt (lines 9-26) asks the provider for one JSON object           *)
(*   {"seoTitle": "...", "specs": "...", "confident": true/false}          *)
(* and a provider may wrap it in prose and code fences, leave line breaks  *)
(* raw inside a string, stop in the middle of the specs value, or answer   *)
(* with something else altogether.                                         *)
(***************************************************************************)
\* Bounds: the atoms of seoTitle and specs together, in an answer that is
\* wrapped and in one that is cut off or holds raw line breaks; the atoms of
\* a free text.
MaxWrappedLen == 2
MaxLen == 3
MaxRaw == 3

\* The atoms a member string is made of.
ContentChars == {"n", BSLASH, QUOTE, LF, FENCE, RBRACE, SP}

\* The atoms a free text is made of.
RawChars == {LBRACE, RBRACE, QUOTE, COLON, BSLASH, "n", DIGIT, SP, FENCE,
             "seoTitle"}

SeqsUpTo(S, n) == UNION {[1..k -> S] : k \in 0..n}

\* JSON.stringify of a string's content: quote, backslash and the control
\* characters are escaped.
RECURSIVE EscapeJSON(_)
EscapeJSON(s) ==
    IF s = <<>> THEN <<>>
    ELSE (IF s[1] = QUOTE THEN <<BSLASH, QUOTE>>
          ELSE IF s[1] = BSLASH THEN <<BSLASH, BSLASH>>
          ELSE IF s[1] = LF THEN <<BSLASH, "n">>
          ELSE IF s[1] = CR THEN <<BSLASH, "r">>
          ELSE <<s[1]>>) \o EscapeJSON(Tail(s))

\* The same, with the line breaks left raw: what a provider emits that does
\* not escape them.
RECURSIVE EscapeRawNewlines(_)
EscapeRawNewlines(s) ==
    IF s = <<>> THEN <<>>
    ELSE (IF s[1] = QUOTE THEN <<BSLASH, QUOTE>>
          ELSE IF s[1] = BSLASH THEN <<BSLASH, BSLASH>>
          ELSE <<s[1]>>) \o EscapeRawNewlines(Tail(s))

\* The JSON text of a value; rawnl: line breaks are left raw in a string.
ValueText(v, rawnl) ==
    IF v.t = "string"
    THEN <<QUOTE>> \o (IF rawnl THEN EscapeRawNewlines(v.s) ELSE EscapeJSON(v.s))
                   \o <<QUOTE>>
    ELSE IF v.t = "number" THEN <<DIGIT>>
    ELSE IF v.t = "boolean" THEN (IF v.b THEN <<"true">> ELSE <<"false">>)
    ELSE <<LBRACE, RBRACE>>

\* The members of obj that are defined, in the order of the prompt.
MemberKeys(obj) ==
    (IF obj.seoTitle.t # "undefined" THEN <<"seoTitle">> ELSE <<>>)
    \o (IF obj.specs.t # "undefined" THEN <<"specs">> ELSE <<>>)
    \o (IF obj.confident.t # "undefined" THEN <<"confident">> ELSE <<>>)

MemberValue(obj, key) ==
    IF key = "seoTitle" THEN obj.seoTitle
    ELSE IF key = "specs" THEN obj.specs
    ELSE obj.confident

\* The JSON text of the members keys of obj; sp is the whitespace after
\* each colon and comma (none: JSON.stringify; one space: the prompt's
\* format); only the specs string is written with raw line breaks.
RECURSIVE MembersText(_, _, _, _)
MembersText(obj, keys, sp, rawnl) ==
    IF keys = <<>> THEN <<>>
    ELSE <<QUOTE, keys[1], QUOTE, COLON>> \o sp
         \o ValueText(MemberValue(obj, keys[1]), rawnl /\ keys[1] = "specs")
         \o (IF Len(keys) > 1 THEN <<COMMA>> \o sp ELSE <<>>)
         \o MembersText(obj, Tail(keys), sp, rawnl)

ObjectText(obj, sp, rawnl) ==
    <<LBRACE>> \o MembersText(obj, MemberKeys(obj), sp, rawnl) \o <<RBRACE>>

\* JSON.stringify(obj)
JSONStringify(obj) == ObjectText(obj, <<>>, FALSE)

Obj(title, specs, confident) ==
    [seoTitle |-> title, specs |-> specs, confident |-> confident,
     extra |-> FALSE]

\* The pairs of a seoTitle and a specs string of at most n atoms together.
StringPairs(n) ==
    {p \in SeqsUpTo(ContentChars, n) \X SeqsUpTo(ContentChars, n) :
        Len(p[1]) + Len(p[2]) <= n}

\* The objects whose members are of any kind, or missing.
TypedValues ==
    {Undefined, StrV(<<>>), StrV(<<"n">>), NumV, BoolV(TRUE), BoolV(FALSE), ObjV}

\* The prose before and after the object, and the fences around it.
Prefixes == {<<>>, <<"n", SP>>, <<LBRACE, SP>>}
Suffixes == {<<>>, <<SP, "n">>, <<SP, RBRACE>>}
Fences == {"none", "json"}

FenceOpen(f) == IF f = "json" THEN <<FENCE, "json", LF>> ELSE <<>>
FenceClose(f) == IF f = "json" THEN <<LF, FENCE>> ELSE <<>>

Source(family, obj, pre, fence, post, head, half) ==
    [family |-> family, obj |-> obj, pre |-> pre, fence |-> fence,
     post |-> post, head |-> head, half |-> half]

\* An object serialised by JSON.stringify and wrapped in fences and prose.
WrappedText(src) ==
    src.pre \o FenceOpen(src.fence) \o JSONStringify(src.obj)
            \o FenceClose(src.fence) \o src.post

\* An answer in the prompt's format that stops in the specs value: obj.specs
\* is what has been received of it, half tells that the text stops after the
\* backslash of an escape, head is the first atom received (2: the opening
\* brace is lost).
ClippedText(src) ==
    LET whole == ObjectText(Obj(src.obj.seoTitle, src.obj.specs, Undefined),
                            <<SP>>, FALSE)
    IN  Sub(whole, src.head, Len(whole) - 2)
        \o (IF src.half THEN <<BSLASH>> ELSE <<>>)

\* An answer in the prompt's format whose specs string holds raw line breaks.
RawNewlineText(src) == ObjectText(src.obj, <<SP>>, TRUE)

VARIABLES
    src,    \* how the text came about (the object it was made from)
    text,   \* the argument of parseAIResponse
    pc,     \* "called": parseAIResponse is to run; "done": it has ended
    out,    \* what parseAIResponse did: see parseAIResponse
    clock,  \* the system clock that new Date() reads (an instant number)
    call,   \* the invocations of signAwsRequest in progress: their locals
    req     \* the requests the serve handlers are working on: their locals

vars == <<src, text, pc, out, clock, call, req>>


NoSource == Source("raw", EmptyObj, <<>>, "none", <<>>, 1, FALSE)

InitWrapped ==
    \E p \in StringPairs(MaxWrappedLen),
       c \in {Undefined, BoolV(TRUE), BoolV(FALSE)},
       pre \in Prefixes, f \in Fences, post \in Suffixes :
        /\ src = Source("wrapped", Obj(StrV(p[1]), StrV(p[2]), c),
                        pre, f, post, 1, FALSE)
        /\ text = WrappedText(src)

InitTyped ==
    \E t \in TypedValues, s \in TypedValues, c \in TypedValues :
        /\ src = Source("typed", Obj(t, s, c), <<>>, "none", <<>>, 1, FALSE)
        /\ text = WrappedText(src)

InitClipped ==
    \E p \in StringPairs(MaxLen), head \in {1, 2}, half \in BOOLEAN :
        /\ src = Source("clipped", Obj(StrV(p[1]), StrV(p[2]), Undefined),
                        <<>>, "none", <<>>, head, half)
        /\ text = ClippedText(src)

InitRawNewline ==
    \E p \in StringPairs(MaxLen) :
        /\ src = Source("rawnl", Obj(StrV(p[1]), StrV(p[2]), BoolV(TRUE)),
                        <<>>, "none", <<>>, 1, FALSE)
        /\ text = RawNewlineText(src)

InitRaw ==
    /\ src = NoSource
    /\ text \in SeqsUpTo(RawChars, MaxRaw)

Init ==
    /\ \/ InitWrapped
       \/ InitTyped
       \/ InitClipped
       \/ InitRawNewline
       \/ InitRaw
    /\ pc = "called"
    /\ out = Pending
    /\ clock = 0
    /\ call = <<>>
    /\ req = <<>>

\* The call of parseAIResponse(text), as in line 219.
Parse ==
    /\ pc = "called"
    /\ out' = parseAIResponse(text)
    /\ pc' = "done"
    /\ UNCHANGED <<src, text, clock, call, req>>

Next == Parse

Spec == Init /\ [][Next]_vars

(***************************************************************************)
(* Vocabulary of the claims.                                               *)
(***************************************************************************)
Done == pc = "done"
ReturnedResult == Done /\ out.status = "returned"
ThrownError == Done /\ out.status = "thrown"

Atoms(s) == {s[i] : i \in 1..Len(s)}

IsPrefix(p, s) == Len(p) <= Len(s) /\ Sub(s, 1, Len(p)) = p

SrcTitle == src.obj.seoTitle.s
SrcSpecs == src.obj.specs.s

\* The source object has a boolean confident.
SrcConfidentGiven == src.obj.confident.t = "boolean"

\* Neither member string of the source object holds a code fence.
SrcNoFence == FENCE \notin Atoms(SrcTitle) \cup Atoms(SrcSpecs)

\* The specs string of the source object holds a backslash directly
\* followed by the letter n.
SrcSpecsBackslashN == Contains(SrcSpecs, <<BSLASH, "n">>)

\* The prose around the object holds no brace.
SrcProseNoBrace == {LBRACE, RBRACE} \cap (Atoms(src.pre) \cup Atoms(src.post)) = {}

(***************************************************************************)
(* C1, as stated: every object with string seoTitle and specs and a        *)
(* boolean confident, serialised by JSON.stringify and wrapped in code     *)
(* fences and prose, comes back from parseAIResponse as an equal object.   *)
(***************************************************************************)
C1_RoundTripAny ==
    (Done /\ src.family = "wrapped" /\ SrcConfidentGiven)
        => (out.status = "returned" /\ out.value = src.obj)

(***************************************************************************)
(* C1, amended: the round trip returns an equal object, confident          *)
(* preserved, when neither string holds a code fence, specs holds no       *)
(* backslash directly followed by n, and the prose holds no brace.         *)
(***************************************************************************)
C1_RoundTrip ==
    (Done /\ src.family = "wrapped" /\ SrcConfidentGiven
          /\ SrcNoFence /\ ~SrcSpecsBackslashN /\ SrcProseNoBrace)
        => (out.status = "returned" /\ out.path = "strict"
            /\ out.value = src.obj)

\* A fenced object between two pieces of prose, with a backslash and a line
\* break in its specs, has come back equal.
C1_Witness ==
    /\ Done
    /\ src.family = "wrapped"
    /\ src.fence = "json" /\ src.pre # <<>> /\ src.post # <<>>
    /\ SrcSpecs = <<BSLASH, LF>>
    /\ src.obj.confident = BoolV(FALSE)
    /\ out.status = "returned"
    /\ out.value = src.obj

(***************************************************************************)
(* C2, as stated: a text that begins with "{", holds a complete quoted     *)
(* seoTitle and a specs value cut off before its closing quote makes       *)
(* parseAIResponse return that seoTitle, a specs holding the content       *)
(* received so far, and confident = false.                                 *)
(***************************************************************************)
C2_TruncationAny ==
    (Done /\ src.family = "clipped" /\ src.head = 1)
        => /\ out.status = "returned"
           /\ out.value.seoTitle = src.obj.seoTitle
           /\ out.value.specs.t = "string"
           /\ IsPrefix(SrcSpecs, out.value.specs.s)
           /\ out.value.confident = BoolV(FALSE)

\* The title holds nothing the fallback changes: no backslash, no control
\* character, no code fence (as written in the text: no escape but that of
\* a quote, and no code fence).
PlainTitle == {BSLASH, LF, CR, FENCE} \cap Atoms(SrcTitle) = {}

\* The specs content received holds nothing the fallback changes or stops
\* at: no backslash, no carriage return, no code fence, no quote directly
\* followed by "}", and no whitespace at its end, where the text ends (as
\* written in the text: no escape but those of a quote and of a line feed).
PlainSpecs ==
    /\ {BSLASH, CR, FENCE} \cap Atoms(SrcSpecs) = {}
    /\ ~Contains(SrcSpecs, <<QUOTE, RBRACE>>)
    /\ (SrcSpecs # <<>> /\ ~src.half) => SrcSpecs[Len(SrcSpecs)] # SP

(***************************************************************************)
(* C2, amended: on such a text parseAIResponse does not fail and returns   *)
(* confident = false; the seoTitle returned is that title when the title   *)
(* holds no backslash, control character or code fence; the specs returned *)
(* begins with the content received so far when that content holds no      *)
(* backslash, no control character but line feeds, no code fence, no quote *)
(* directly followed by "}", and does not end in whitespace.               *)
(***************************************************************************)
C2_Truncation ==
    (Done /\ src.family = "clipped" /\ src.head = 1)
        => /\ out.status = "returned"
           /\ out.value.confident = BoolV(FALSE)
           /\ out.value.seoTitle.t = "string"
           /\ out.value.specs.t = "string"
           /\ PlainTitle => out.value.seoTitle = src.obj.seoTitle
           /\ PlainSpecs => IsPrefix(SrcSpecs, out.value.specs.s)

\* The text stopped after two lines of specs, and both lines came back.
C2_Witness ==
    /\ Done
    /\ src.family = "clipped" /\ src.head = 1 /\ ~src.half
    /\ SrcTitle = <<"n">>
    /\ SrcSpecs = <<LF, "n">>
    /\ out.status = "returned"
    /\ out.path = "manual"
    /\ out.value.seoTitle.s = <<"n">>
    /\ out.value.specs.s = <<LF, "n">>
    /\ out.value.confident = BoolV(FALSE)

\* A value JavaScript takes for false in a condition: undefined, the empty
\* string, false (null and 0 are not among the atoms).
Falsy(v) ==
    \/ v.t = "undefined"
    \/ v.t = "string" /\ v.s = <<>>
    \/ v.t = "boolean" /\ ~v.b

(***************************************************************************)
(* C3, as stated: for every input text that is valid JSON the strict path  *)
(* succeeds and a result is returned.                                      *)
(***************************************************************************)
C3_ValidJSONAny ==
    (Done /\ JSONParse(text).ok)
        => (out.status = "returned" /\ out.path = "strict")

(***************************************************************************)
(* C3, amended: for every input text that is a valid JSON object whose     *)
(* specs member is missing, falsy or a string, the strict path succeeds    *)
(* and a result is returned.                                               *)
(***************************************************************************)
C3_ValidJSONObject ==
    (Done /\ JSONParse(text).ok /\ JSONParse(text).v = ObjV
          /\ (Falsy(JSONParse(text).obj.specs)
                \/ JSONParse(text).obj.specs.t = "string"))
        => (out.status = "returned" /\ out.path = "strict")

\* A valid JSON object with a nested object, a "}" inside a string and a
\* falsy specs has been parsed on the strict path.
C3_Witness ==
    /\ Done
    /\ src.family = "typed"
    /\ JSONParse(text).ok
    /\ src.obj.seoTitle = ObjV
    /\ src.obj.specs = BoolV(FALSE)
    /\ out.status = "returned"
    /\ out.path = "strict"
    /\ out.value.seoTitle = ObjV

(***************************************************************************)
(* C4, as stated: whenever the quoted-key-then-quoted-value pattern for    *)
(* seoTitle matches the normalised text, parseAIResponse returns a result. *)
(***************************************************************************)
C4_TitleLocatableAny ==
    (Done /\ SeoTitleMatch(Normalize(text)).found) => out.status = "returned"

(***************************************************************************)
(* C4, amended: whenever the normalised text begins with "{" and the       *)
(* pattern for seoTitle matches it, parseAIResponse returns a result.      *)
(***************************************************************************)
C4_TitleLocatable ==
    (Done /\ Normalize(text) # <<>> /\ Normalize(text)[1] = LBRACE
          /\ SeoTitleMatch(Normalize(text)).found)
        => out.status = "returned"

\* An object followed by prose with a "}" fails the strict parse and is
\* recovered by the fallback.
C4_Witness ==
    /\ Done
    /\ src.family = "wrapped" /\ src.pre = <<>> /\ src.post = <<SP, RBRACE>>
    /\ Normalize(text)[1] = LBRACE
    /\ out.status = "returned"
    /\ out.path = "manual"

(***************************************************************************)
(* C5: every result parseAIResponse returns has a string seoTitle and a    *)
(* string specs; a parsed object without seoTitle is a failure, not a      *)
(* result.                                                                 *)
(***************************************************************************)
C5_ResultHasFields ==
    ReturnedResult
        => (out.value.seoTitle.t = "string" /\ out.value.specs.t = "string")

(***************************************************************************)
(* C6: an input text without any "{" makes parseAIResponse throw.          *)
(***************************************************************************)
C6_NoBraceThrows ==
    (Done /\ LBRACE \notin Atoms(text)) => out.status = "thrown"

\* A text that lost its opening brace, seoTitle complete, has been refused.
C6_Witness ==
    /\ Done
    /\ src.family = "clipped" /\ src.head = 2
    /\ LBRACE \notin Atoms(text)
    /\ SeoTitleMatch(Normalize(text)).found
    /\ out.status = "thrown"
    /\ out.error = ErrorMessage

C8_ConfidentPreservedOrTrue ==
    (ReturnedResult /\ out.path = "strict" /\ src.family \in {"wrapped", "typed"}
          /\ SrcProseNoBrace)
        => out.value.confident =
              (IF src.obj.confident.t = "undefined" THEN BoolV(TRUE)
               ELSE src.obj.confident)

(***************************************************************************)
(* C9: every result of the manual extraction has confident = false, so a   *)
(* result with confident = true comes from the strict path.                *)
(***************************************************************************)
C9_ManualNotConfident ==
    /\ (ReturnedResult /\ out.path = "manual")
          => out.value.confident = BoolV(FALSE)
    /\ (ReturnedResult /\ out.value.confident = BoolV(TRUE))
          => out.path = "strict"

\* A text that says confident: true has been recovered by the fallback, and
\* the result says false.
C9_Witness ==
    /\ Done
    /\ src.family = "wrapped"
    /\ src.obj.confident = BoolV(TRUE)
    /\ Contains(text, <<QUOTE, "confident", QUOTE, COLON, "true">>)
    /\ out.status = "returned"
    /\ out.path = "manual"
    /\ out.value.confident = BoolV(FALSE)

(***************************************************************************)
(* C10: the error parseAIResponse throws carries the original text, cut to *)
(* its first N characters: at the least the first character of the text    *)
(* stands in the message.                                                  *)
(***************************************************************************)
C10_ErrorCarriesText ==
    (ThrownError /\ text # <<>>)
        => \E n \in 1..Len(text) : Contains(out.error, Sub(text, 1, n))

(***************************************************************************)
(* The AWS Signature Version 4 signer signAwsRequest                       *)
(* (src/supabase/functions/format-pricelist/index.ts, lines 10-88; the     *)
(* same text is in src/unnamed/part_001, lines 29-111, and in              *)
(* src/unnamed/part_002, lines 196-274).                                   *)
(*                                                                         *)
(* A string is a sequence of atoms, as above.  The literals of the signer  *)
(* that nothing looks into are single atoms ("AWS4-HMAC-SHA256",           *)
(* "aws4_request", "content-type:application/json", ...); a timestamp is   *)
(* written character by character, because the code edits and slices it.   *)
(***************************************************************************)
SLASH == "/"

DigitChars == <<"0", "1", "2", "3", "4", "5", "6", "7", "8", "9">>

\* n written in decimal with w digits, zero padded (String.padStart).
RECURSIVE Decimal(_, _)
Decimal(n, w) ==
    IF w = 0 THEN <<>>
    ELSE Decimal(n \div 10, w - 1) \o <<DigitChars[(n % 10) + 1]>>

(***************************************************************************)
(* The system clock.  Instant number k is FirstInstantMs + k * TickMs      *)
(* milliseconds into 30 August 2015 (UTC): instant 0 lies in second        *)
(* 23:59:58 of that day, instants 1 and 2 in second 23:59:59, instant 3    *)
(* is midnight of the next day.                                            *)
(***************************************************************************)
FirstInstantMs == 86398500
TickMs == 500

\* Date.prototype.toISOString of instant k: YYYY-MM-DDTHH:mm:ss.sssZ.
ToISOString(k) ==
    LET ms  == FirstInstantMs + k * TickMs
        day == 30 + (ms \div 86400000)
        t   == ms % 86400000
        sec == t \div 1000
    IN  <<"2", "0", "1", "5", "-", "0", "8", "-">> \o Decimal(day, 2)
        \o <<"T">> \o Decimal(sec \div 3600, 2)
        \o <<COLON>> \o Decimal((sec \div 60) % 60, 2)
        \o <<COLON>> \o Decimal(sec % 60, 2)
        \o <<".">> \o Decimal(t % 1000, 3) \o <<"Z">>

\* s.replace(/[:-]|\.\d{3}/g, ''), from position i on (line 50).
RECURSIVE StripDateFrom(_, _)
StripDateFrom(s, i) ==
    IF i > Len(s) THEN <<>>
    ELSE IF s[i] \in {COLON, "-"} THEN StripDateFrom(s, i + 1)
    ELSE IF /\ s[i] = "."
            /\ i + 3 <= Len(s)
            /\ \A j \in 1..3 : \E d \in 1..10 : s[i + j] = DigitChars[d]
         THEN StripDateFrom(s, i + 4)
    ELSE <<s[i]>> \o StripDateFrom(s, i + 1)

\* now.toISOString().replace(/[:-]|\.\d{3}/g, '') (line 50).
AmzDate(k) == StripDateFrom(ToISOString(k), 1)

\* amzDate.slice(0, 8) (line 51).
DateStamp(amzDate) == Sub(amzDate, 1, 8)

(***************************************************************************)
(* The Web Crypto digests, taken as injective: a digest is its input       *)
(* between brackets that occur nowhere else.  toHex is the lowercase hex   *)
(* writing of a byte string.                                               *)
(***************************************************************************)
\* new TextEncoder().encode(s)
Utf8(s) == <<"utf8(">> \o s \o <<")utf8">>

\* toHex (lines 10-12)
ToHex(bytes) == <<"hex(">> \o bytes \o <<")hex">>

\* sha256 (lines 14-18): the hex writing of the SHA-256 digest of the
\* encoded string.
Sha256(data) == ToHex(<<"sha256(">> \o Utf8(data) \o <<")sha256">>)

\* hmacSha256 (lines 20-26): HMAC-SHA256 of the string data under key bytes.
HmacSha256(key, data) ==
    <<"hmac(">> \o key \o <<"hmac,">> \o Utf8(data) \o <<")hmac">>

(***************************************************************************)
(* new URL(url): host and pathname (lines 45-47).  A url is a scheme atom  *)
(* followed by the atoms of the authority, the path, and the query.        *)
(***************************************************************************)
\* The first position from i on that holds an atom of set stop, or Len + 1.
FirstOf(t, i, stop) ==
    LET hits == {j \in i..Len(t) : t[j] \in stop}
    IN  IF hits = {} THEN Len(t) + 1
        ELSE CHOOSE j \in hits : \A k \in hits : j <= k

UrlHost(url) == Sub(url, 2, FirstOf(url, 2, {SLASH, "?", "#"}) - 1)

UrlPathname(url) ==
    LET from == FirstOf(url, 2, {SLASH, "?", "#"})
        to   == FirstOf(url, 2, {"?", "#"}) - 1
    IN  IF from > to THEN <<SLASH>> ELSE Sub(url, from, to)

\* parts.join('\n')
RECURSIVE JoinLines(_)
JoinLines(parts) ==
    IF parts = <<>> THEN <<>>
    ELSE IF Len(parts) = 1 THEN parts[1]
    ELSE parts[1] \o <<LF>> \o JoinLines(Tail(parts))

(***************************************************************************)
(* One invocation of signAwsRequest.  The function is async: it runs up to *)
(* an await, and goes on when the awaited digest is there; other code runs *)
(* in between, and the clock moves.  A call is the record of its           *)
(* arguments (in), its locals, and pc, which names the value it waits for. *)
(* The two awaits inside hmacSha256 (importKey, sign) are one step: they   *)
(* touch the locals of that hmacSha256 call only.                          *)
(***************************************************************************)
SignArgs(method, url, body, accessKey, secretKey, region, service) ==
    [method |-> method, url |-> url, body |-> body, accessKey |-> accessKey,
     secretKey |-> secretKey, region |-> region, service |-> service]

\* signAwsRequest has been called with arguments in and has not run yet.
NewCall(in) ==
    [pc |-> "start", in |-> in, host |-> <<>>, path |-> <<>>, now |-> 0,
     amzDate |-> <<>>, dateStamp |-> <<>>, payloadHash |-> <<>>,
     canonicalHeaders |-> <<>>, canonicalRequest |-> <<>>,
     credentialScope |-> <<>>, canonicalRequestHash |-> <<>>,
     stringToSign |-> <<>>, key |-> <<>>, signature |-> <<>>,
     headers |-> <<>>]

signedHeaders == <<"content-type;host;x-amz-date">>
algorithm == <<"AWS4-HMAC-SHA256">>

\* Lines 45-53: up to the await of sha256(body).  clk is the clock now.
StepStart(c, clk) ==
    [c EXCEPT !.host = UrlHost(c.in.url),
              !.path = UrlPathname(c.in.url),
              !.now = clk,
              !.amzDate = AmzDate(clk),
              !.dateStamp = DateStamp(AmzDate(clk)),
              !.pc = "payloadHash"]

\* A variant that hashes the empty payload instead of the body.
StepPayloadHashEmptyBody(c, clk) ==
    LET payloadHash == Sha256(<<>>)
        canonicalHeaders ==
            <<"content-type:application/json", LF, "host:">> \o c.host
            \o <<LF, "x-amz-date:">> \o c.amzDate \o <<LF>>
    IN  [c EXCEPT !.payloadHash = payloadHash,
                  !.canonicalHeaders = canonicalHeaders,
                  !.canonicalRequest =
                      JoinLines(<<c.in.method, c.path, <<>>, canonicalHeaders,
                                  signedHeaders, payloadHash>>),
                  !.credentialScope =
                      c.dateStamp \o <<SLASH>> \o c.in.region \o <<SLASH>>
                      \o c.in.service \o <<SLASH, "aws4_request">>,
                  !.pc = "canonicalRequestHash"]

\* A variant that takes the date of the credential scope from the clock
\* again, at the time the scope is built.
StepPayloadHashRereadsClock(c, clk) ==
    LET payloadHash == Sha256(c.in.body)
        canonicalHeaders ==
            <<"content-type:application/json", LF, "host:">> \o c.host
            \o <<LF, "x-amz-date:">> \o c.amzDate \o <<LF>>
    IN  [c EXCEPT !.payloadHash = payloadHash,
                  !.canonicalHeaders = canonicalHeaders,
                  !.canonicalRequest =
                      JoinLines(<<c.in.method, c.path, <<>>, canonicalHeaders,
                                  signedHeaders, payloadHash>>),
                  !.credentialScope =
                      DateStamp(AmzDate(clk)) \o <<SLASH>> \o c.in.region
                      \o <<SLASH>> \o c.in.service \o <<SLASH, "aws4_request">>,
                  !.pc = "canonicalRequestHash"]

\* A variant that writes the query of the url into the query line.
StepPayloadHashWithQuery(c, clk) ==
    LET payloadHash == Sha256(c.in.body)
        canonicalHeaders ==
            <<"content-type:application/json", LF, "host:">> \o c.host
            \o <<LF, "x-amz-date:">> \o c.amzDate \o <<LF>>
        search == Sub(c.in.url, FirstOf(c.in.url, 2, {"?"}) + 1, Len(c.in.url))
    IN  [c EXCEPT !.payloadHash = payloadHash,
                  !.canonicalHeaders = canonicalHeaders,
                  !.canonicalRequest =
                      JoinLines(<<c.in.method, c.path, search, canonicalHeaders,
                                  signedHeaders, payloadHash>>),
                  !.credentialScope =
                      c.dateStamp \o <<SLASH>> \o c.in.region \o <<SLASH>>
                      \o c.in.service \o <<SLASH, "aws4_request">>,
                  !.pc = "canonicalRequestHash"]

\* Lines 53-69: sha256(body) is there; up to the await of
\* sha256(canonicalRequest).
StepPayloadHash(c, clk) ==
    LET payloadHash == Sha256(c.in.body)
        canonicalHeaders ==
            <<"content-type:application/json", LF, "host:">> \o c.host
            \o <<LF, "x-amz-date:">> \o c.amzDate \o <<LF>>
    IN  [c EXCEPT !.payloadHash = payloadHash,
                  !.canonicalHeaders = canonicalHeaders,
                  !.canonicalRequest =
                      JoinLines(<<c.in.method, c.path, <<>>, canonicalHeaders,
                                  signedHeaders, payloadHash>>),
                  !.credentialScope =
                      c.dateStamp \o <<SLASH>> \o c.in.region \o <<SLASH>>
                      \o c.in.service \o <<SLASH, "aws4_request">>,
                  !.pc = "canonicalRequestHash"]

\* A variant that writes the time the clock shows into the string to sign.
StepCanonicalRequestHashRereadsClock(c, clk) ==
    LET canonicalRequestHash == Sha256(c.canonicalRequest)
    IN  [c EXCEPT !.canonicalRequestHash = canonicalRequestHash,
                  !.stringToSign =
                      JoinLines(<<algorithm, AmzDate(clk), c.credentialScope,
                                  canonicalRequestHash>>),
                  !.pc = "kDate"]

\* Lines 69-78: sha256(canonicalRequest) is there; the string to sign is
\* joined and getSignatureKey is called, up to its first await (line 29).
StepCanonicalRequestHash(c, clk) ==
    LET canonicalRequestHash == Sha256(c.canonicalRequest)
    IN  [c EXCEPT !.canonicalRequestHash = canonicalRequestHash,
                  !.stringToSign =
                      JoinLines(<<algorithm, c.amzDate, c.credentialScope,
                                  canonicalRequestHash>>),
                  !.pc = "kDate"]

\* A variant that derives the key for the date the clock shows when the
\* derivation runs.
StepKDateRereadsClock(c, clk) ==
    [c EXCEPT !.key = HmacSha256(Utf8(<<"AWS4">> \o c.in.secretKey),
                                 DateStamp(AmzDate(clk))),
              !.pc = "kRegion"]

\* Line 29: kDate.
StepKDate(c, clk) ==
    [c EXCEPT !.key = HmacSha256(Utf8(<<"AWS4">> \o c.in.secretKey),
                                 c.dateStamp),
              !.pc = "kRegion"]

\* A variant that keys the second HMAC with the hex writing of kDate.
StepKRegionHexKey(c, clk) ==
    [c EXCEPT !.key = HmacSha256(Utf8(ToHex(c.key)), c.in.region),
              !.pc = "kService"]

\* Line 30: kRegion.
StepKRegion(c, clk) ==
    [c EXCEPT !.key = HmacSha256(c.key, c.in.region), !.pc = "kService"]

\* Line 31: kService.
StepKService(c, clk) ==
    [c EXCEPT !.key = HmacSha256(c.key, c.in.service), !.pc = "kSigning"]

\* Lines 32-33 and 78-79: kSigning is returned to signAwsRequest, which
\* awaits the HMAC of the string to sign.
StepKSigning(c, clk) ==
    [c EXCEPT !.key = HmacSha256(c.key, <<"aws4_request">>),
              !.pc = "signature"]

\* A variant that returns the date and the Authorization header only.
SigningResultTwoHeaders(amzDate, authorizationHeader) ==
    [n \in {"X-Amz-Date", "Authorization"} |->
        IF n = "X-Amz-Date" THEN amzDate ELSE authorizationHeader]

\* The header map of lines 83-87.
SigningResult(amzDate, authorizationHeader) ==
    [n \in {"Content-Type", "X-Amz-Date", "Authorization"} |->
        IF n = "Content-Type" THEN <<"application/json">>
        ELSE IF n = "X-Amz-Date" THEN amzDate
        ELSE authorizationHeader]

\* A variant whose Credential names the access key and the date only.
AuthorizationHeaderShortScope(accessKey, credentialScope, signature) ==
    algorithm \o <<SP, "Credential=">> \o accessKey \o <<SLASH>>
    \o Sub(credentialScope, 1, 8) \o <<COMMA, SP, "SignedHeaders=">>
    \o signedHeaders \o <<COMMA, SP, "Signature=">> \o signature

\* Line 81.
AuthorizationHeader(accessKey, credentialScope, signature) ==
    algorithm \o <<SP, "Credential=">> \o accessKey \o <<SLASH>>
    \o credentialScope \o <<COMMA, SP, "SignedHeaders=">> \o signedHeaders
    \o <<COMMA, SP, "Signature=">> \o signature

\* A variant that signs the credential scope in place of the string to sign.
StepSignatureOfScope(c, clk) ==
    LET signature == ToHex(HmacSha256(c.key, c.credentialScope))
    IN  [c EXCEPT !.signature = signature,
                  !.headers = SigningResult(c.amzDate,
                      AuthorizationHeader(c.in.accessKey, c.credentialScope,
                                          signature)),
                  !.pc = "done"]

\* Lines 79-87: the signature, the Authorization header, the result.
StepSignature(c, clk) ==
    LET signature == ToHex(HmacSha256(c.key, c.stringToSign))
    IN  [c EXCEPT !.signature = signature,
                  !.headers = SigningResult(c.amzDate,
                      AuthorizationHeader(c.in.accessKey, c.credentialScope,
                                          signature)),
                  !.pc = "done"]

\* The next step of call c when the clock shows clk.
SignStep(c, clk) ==
    CASE c.pc = "start" -> StepStart(c, clk)
      [] c.pc = "payloadHash" -> StepPayloadHash(c, clk)
      [] c.pc = "canonicalRequestHash" -> StepCanonicalRequestHash(c, clk)
      [] c.pc = "kDate" -> StepKDate(c, clk)
      [] c.pc = "kRegion" -> StepKRegion(c, clk)
      [] c.pc = "kService" -> StepKService(c, clk)
      [] c.pc = "kSigning" -> StepKSigning(c, clk)
      [] c.pc = "signature" -> StepSignature(c, clk)
      [] OTHER -> c

\* signAwsRequest run from its call to its return with nothing in between:
\* the clock shows clk throughout.
RECURSIVE RunToEnd(_, _)
RunToEnd(c, clk) == IF c.pc = "done" THEN c ELSE RunToEnd(SignStep(c, clk), clk)

signAwsRequest(in, clk) == RunToEnd(NewCall(in), clk)

(***************************************************************************)
(* The signer at work: two invocations of signAwsRequest in one isolate,   *)
(* interleaved at their awaits, while the clock moves.                     *)
(***************************************************************************)
MaxClock == 3

Calls == {"a", "b"}

\* The url callBedrockAPI builds (line 174), and the same with a query.
BedrockUrl(region, model) ==
    <<"https://", "bedrock-runtime", ".">> \o region
    \o <<".", "amazonaws", ".", "com", SLASH, "model", SLASH>> \o model
    \o <<SLASH, "invoke">>

\* The arguments of callBedrockAPI's call (line 185), and the same with one
\* argument changed: the body, the secret key, the access key, the region
\* (and with it the url), the query of the url, the method.
BaseArgs ==
    SignArgs(<<"POST">>, BedrockUrl(<<"us-east-1">>, <<"x">>),
             <<LBRACE, RBRACE>>, <<"AKIDEXAMPLE">>, <<"wJalr">>,
             <<"us-east-1">>, <<"bedrock">>)

SignInputs ==
    {BaseArgs,
     [BaseArgs EXCEPT !.body = <<LBRACE, QUOTE, "a", QUOTE, COLON, DIGIT, RBRACE>>],
     [BaseArgs EXCEPT !.secretKey = <<"other">>],
     [BaseArgs EXCEPT !.accessKey = <<"AKIDOTHER">>],
     [BaseArgs EXCEPT !.region = <<"eu-west-1">>,
                      !.url = BedrockUrl(<<"eu-west-1">>, <<"x">>)],
     [BaseArgs EXCEPT !.url = BedrockUrl(<<"us-east-1">>, <<"x">>)
                              \o <<"?", "x">>],
     [BaseArgs EXCEPT !.method = <<"GET">>]}

SignInit ==
    /\ clock = 0
    /\ call \in [Calls -> {NewCall(in) : in \in SignInputs}]
    /\ req = <<>>
    /\ src = NoSource
    /\ text = <<>>
    /\ pc = "idle"
    /\ out = Pending

\* Time passes.
Tick ==
    /\ clock < MaxClock
    /\ clock' = clock + 1
    /\ UNCHANGED <<call, req, src, text, pc, out>>

\* Call i goes on to its next await, or to its return.
SignAwait(i) ==
    /\ call[i].pc # "done"
    /\ call' = [call EXCEPT ![i] = SignStep(call[i], clock)]
    /\ UNCHANGED <<clock, req, src, text, pc, out>>

SignNext ==
    \/ Tick
    \/ \E i \in Calls : SignAwait(i)

SignSpec == SignInit /\ [][SignNext]_vars

(***************************************************************************)
(* Vocabulary of the claims about the signer.                              *)
(***************************************************************************)
\* How far a call has come: the number of steps it has taken.
PcRank(p) ==
    CASE p = "start" -> 0
      [] p = "payloadHash" -> 1
      [] p = "canonicalRequestHash" -> 2
      [] p = "kDate" -> 3
      [] p = "kRegion" -> 4
      [] p = "kService" -> 5
      [] p = "kSigning" -> 6
      [] p = "signature" -> 7
      [] p = "done" -> 8

Signed(i) == call[i].pc = "done"

\* The part of header value h that follows label, up to the next comma or
\* the end.
HeaderPart(h, label) ==
    LET at == FirstOf(h, 1, {label})
    IN  Sub(h, at + 1, FirstOf(h, at + 1, {COMMA}) - 1)

\* Text t holds the piece p somewhere.
Holds(t, p) ==
    \E i \in 1..(Len(t) + 1 - Len(p)) : Sub(t, i, i + Len(p) - 1) = p

CredentialOf(i) == HeaderPart(call[i].headers["Authorization"], "Credential=")
SignedHeadersOf(i) ==
    HeaderPart(call[i].headers["Authorization"], "SignedHeaders=")
SignatureOf(i) == HeaderPart(call[i].headers["Authorization"], "Signature=")

\* Calls i and j have the same arguments but for the body.
DifferOnlyInBody(i, j) ==
    /\ call[i].in.body # call[j].in.body
    /\ [call[i].in EXCEPT !.body = call[j].in.body] = call[j].in

(***************************************************************************)
(* C11: a call reads the clock once, and every field derived from the time *)
(* holds that one reading now: the X-Amz-Date header, the x-amz-date line  *)
(* of the canonical headers, the timestamp line of the string to sign and, *)
(* as its first 8 characters, the date of the credential scope (in the     *)
(* string to sign and in the Authorization header) and of the key          *)
(* derivation; this is so at every await, however the clock has moved.     *)
(***************************************************************************)
C11_OneTimestamp ==
    \A i \in Calls :
        LET c  == call[i]
            ts == AmzDate(c.now)
            ds == Sub(ts, 1, 8)
            scope == ds \o <<SLASH>> \o c.in.region \o <<SLASH>>
                     \o c.in.service \o <<SLASH, "aws4_request">>
        IN  /\ PcRank(c.pc) >= 1 => (c.amzDate = ts /\ c.dateStamp = ds)
            /\ PcRank(c.pc) >= 2 =>
                  /\ Holds(c.canonicalRequest,
                              <<LF, "x-amz-date:">> \o ts \o <<LF>>)
                  /\ c.credentialScope = scope
            /\ PcRank(c.pc) >= 3 =>
                  IsPrefix(algorithm \o <<LF>> \o ts \o <<LF>> \o scope \o <<LF>>,
                           c.stringToSign)
            /\ PcRank(c.pc) >= 4 =>
                  Holds(c.key,
                           HmacSha256(Utf8(<<"AWS4">> \o c.in.secretKey), ds))
            /\ PcRank(c.pc) = 8 =>
                  /\ c.headers["X-Amz-Date"] = ts
                  /\ CredentialOf(i) = c.in.accessKey \o <<SLASH>> \o scope
                  /\ Holds(c.signature, Utf8(c.stringToSign))

\* Call a read the clock on 30 August, has built its scope and derived its
\* key, and the clock shows 31 August before the call has returned.
C11_Witness ==
    /\ call["a"].pc = "signature"
    /\ call["a"].now = 1
    /\ clock = 3
    /\ DateStamp(AmzDate(clock)) # call["a"].dateStamp

(***************************************************************************)
(* C12: two calls with the same arguments and the same timestamp return    *)
(* the same header map.                                                    *)
(***************************************************************************)
C12_Deterministic ==
    \A i, j \in Calls :
        (/\ Signed(i) /\ Signed(j)
         /\ call[i].in = call[j].in
         /\ call[i].amzDate = call[j].amzDate)
            => call[i].headers = call[j].headers

\* Two calls with the same arguments that read the clock at two instants of
\* one second have returned, while the clock went on to the next day.
C12_Witness ==
    /\ Signed("a") /\ Signed("b")
    /\ call["a"].in = call["b"].in
    /\ call["a"].now = 1 /\ call["b"].now = 2
    /\ clock = 3
    /\ call["a"].headers = call["b"].headers

(***************************************************************************)
(* C13, as stated: two calls with the same arguments that read the clock   *)
(* at different instants return different signatures.                      *)
(***************************************************************************)
C13_DifferentInstants ==
    \A i, j \in Calls :
        (/\ Signed(i) /\ Signed(j)
         /\ call[i].in = call[j].in
         /\ call[i].now # call[j].now)
            => SignatureOf(i) # SignatureOf(j)

(***************************************************************************)
(* C13, amended: two calls with the same arguments that read the clock in  *)
(* different seconds (their timestamps differ) return different            *)
(* signatures, the digests taken as injective.                             *)
(***************************************************************************)
C13_DifferentSeconds ==
    \A i, j \in Calls :
        (/\ Signed(i) /\ Signed(j)
         /\ call[i].in = call[j].in
         /\ call[i].amzDate # call[j].amzDate)
            => SignatureOf(i) # SignatureOf(j)

\* Two calls with the same arguments, one second apart on the same day,
\* have returned different signatures.
C13_Witness ==
    /\ Signed("a") /\ Signed("b")
    /\ call["a"].in = call["b"].in
    /\ call["a"].now = 0 /\ call["b"].now = 1
    /\ call["a"].dateStamp = call["b"].dateStamp
    /\ SignatureOf("a") # SignatureOf("b")

(***************************************************************************)
(* C14, as stated: the result of signAwsRequest has exactly two headers,   *)
(* the date header and the Authorization header, and no content-type.      *)
(***************************************************************************)
C14_TwoHeaders ==
    \A i \in Calls :
        Signed(i) => DOMAIN call[i].headers = {"X-Amz-Date", "Authorization"}

(***************************************************************************)
(* C14, amended: the result of signAwsRequest has exactly three headers:   *)
(* the date header, the Authorization header, and Content-Type with the    *)
(* value application/json that the canonical headers name.                 *)
(***************************************************************************)
C14_ThreeHeaders ==
    \A i \in Calls :
        Signed(i) =>
            /\ DOMAIN call[i].headers =
                  {"Content-Type", "X-Amz-Date", "Authorization"}
            /\ call[i].headers["Content-Type"] = <<"application/json">>
            /\ call[i].headers["X-Amz-Date"] = call[i].amzDate
            /\ IsPrefix(algorithm \o <<SP, "Credential=">>,
                        call[i].headers["Authorization"])

\* A call has returned its header map.
C14_Witness ==
    /\ Signed("a")
    /\ "Content-Type" \in DOMAIN call["a"].headers
    /\ SignatureOf("a") = call["a"].signature
    /\ call["a"].signature # <<>>

(***************************************************************************)
(* C15: two calls with the same timestamp whose arguments differ in the    *)
(* body only return the same SignedHeaders list, the same Credential and   *)
(* the same date header, and different signatures (the digests taken as    *)
(* injective).                                                             *)
(***************************************************************************)
C15_BodySensitive ==
    \A i, j \in Calls :
        (/\ Signed(i) /\ Signed(j)
         /\ DifferOnlyInBody(i, j)
         /\ call[i].amzDate = call[j].amzDate)
            => /\ SignedHeadersOf(i) = SignedHeadersOf(j)
               /\ SignedHeadersOf(i) = signedHeaders
               /\ CredentialOf(i) = CredentialOf(j)
               /\ call[i].headers["X-Amz-Date"] = call[j].headers["X-Amz-Date"]
               /\ SignatureOf(i) # SignatureOf(j)

\* Two calls that differ in the body only and read the clock at one instant
\* have returned different signatures.
C15_Witness ==
    /\ Signed("a") /\ Signed("b")
    /\ DifferOnlyInBody("a", "b")
    /\ call["a"].now = call["b"].now
    /\ CredentialOf("a") = CredentialOf("b")
    /\ SignatureOf("a") # SignatureOf("b")

(***************************************************************************)
(* The serve handlers that call a provider chosen by the user's settings:  *)
(*   enrich-seo       src/unnamed/part_001, lines 260-383 (with Bedrock),  *)
(*                    src/supabase/functions/enrich-seo/index.ts, lines    *)
(*                    140-245 (Gemini and Claude only);                    *)
(*   match-products   src/unnamed/part_002, lines 368-520 (with Bedrock),  *)
(*                    src/supabase/functions/match-products/index.ts,      *)
(*                    lines 71-210 (Gemini and Claude only);               *)
(*   format-pricelist src/supabase/functions/format-pricelist/index.ts,    *)
(*                    lines 206-312 (with Bedrock), src/unnamed/part_002,  *)
(*                    lines 92-185 (Gemini and Claude only).               *)
(* A request is the record of the handler's locals, of pc, which names the *)
(* await the handler stands at, and of effects: the provider requests      *)
(* sent, the database updates made and the responses given, in order.      *)
(* What the handler awaits (the request's headers and body, the user       *)
(* lookup, the settings row, the provider's answer) is the input e of the  *)
(* step.  A key that is not set is the empty string; responseText is      *)
(* undefined until the provider call has returned; body.readable is FALSE  *)
(* once req.json() has thrown.                                             *)
(***************************************************************************)
Handlers == {"enrich-seo", "match-products", "format-pricelist"}

NewRequest(handler, bedrock) ==
    [handler |-> handler, bedrock |-> bedrock, pc |-> "received",
     received |-> [method |-> "", authHeader |-> FALSE], user |-> "",
     settings |-> [ai_provider |-> "", gemini_api_key |-> <<>>,
                   claude_api_key |-> <<>>, bedrock_api_key |-> <<>>,
                   aws_access_key |-> <<>>, aws_secret_key |-> <<>>],
     aiProvider |-> "",
     body |-> [readable |-> TRUE, given |-> FALSE, productId |-> FALSE,
               existingProducts |-> <<>>, newProducts |-> <<>>],
     sign |-> NewCall(BaseArgs), responseText |-> Undefined,
     result |-> Pending,
     effects |-> <<>>]

\* return new Response(body, { status }).
Respond(r, status, body) ==
    [r EXCEPT !.effects = Append(@, [type |-> "response", status |-> status,
                                     body |-> body]),
              !.pc = "responded"]

\* The outer catch: status 500 with the error's message.
Catch(r, message) == Respond(r, 500, [error |-> message])

\* Lines 206-218: OPTIONS, the Authorization header; up to await getUser().
HandleReceived(r, e) ==
    LET rr == [r EXCEPT !.received = e]
    IN  IF e.method = "OPTIONS" THEN Respond(rr, 200, <<"ok">>)
        ELSE IF ~e.authHeader
             THEN Respond(rr, 401,
                          [error |-> <<"Missing authorization header">>])
        ELSE [rr EXCEPT !.pc = "getUser"]

\* Lines 226-238: the user; up to the await of the settings row.
HandleGetUser(r, e) ==
    LET rr == [r EXCEPT !.user = e]
    IN  IF e = "throws" THEN Catch(rr, <<"getUser failed">>)
        ELSE IF e = "none"
             THEN Respond(rr, 401, [error |-> <<"Unauthorized">>])
        ELSE [rr EXCEPT !.pc = "settings"]

\* The credential checks (format-pricelist lines 242-250; part_001 lines
\* 298-318; part_002 lines 404-412, 129-131).
CredentialsConfigured(handler, bedrock, aiProvider, s) ==
    LET aws == s.aws_access_key # <<>> /\ s.aws_secret_key # <<>>
        bedrockOk == IF handler = "format-pricelist" THEN aws
                     ELSE s.bedrock_api_key # <<>> /\ aws
    IN  IF handler = "enrich-seo"
        THEN /\ ~(bedrock /\ aiProvider = "bedrock" /\ ~bedrockOk)
             /\ ~(aiProvider = "claude" /\ s.claude_api_key = <<>>)
             /\ ~(aiProvider = "gemini" /\ s.gemini_api_key = <<>>)
        ELSE IF bedrock /\ aiProvider = "bedrock" THEN bedrockOk
        ELSE IF aiProvider = "claude" THEN s.claude_api_key # <<>>
        ELSE s.gemini_api_key # <<>>

\* Lines 240-259: aiProvider, the credential check; up to await req.json().
HandleSettings(r, e) ==
    LET aiProvider == IF e.ai_provider = "" THEN "gemini" ELSE e.ai_provider
    IN  IF ~CredentialsConfigured(r.handler, r.bedrock, aiProvider, e)
        THEN Respond([r EXCEPT !.settings = e, !.aiProvider = aiProvider],
                     400, [error |-> <<"not configured">>])
        ELSE [r EXCEPT !.settings = e, !.aiProvider = aiProvider,
                       !.pc = "body"]

\* The branch of lines 273-293 that is taken.
CalledProvider(r) ==
    IF r.bedrock /\ r.aiProvider = "bedrock" THEN "bedrock"
    ELSE IF r.aiProvider = "claude" THEN "claude"
    ELSE "gemini"

\* fetch(url, { method: 'POST', headers, body }): the request is sent.
Fetch(r, provider, url, headers, body) ==
    [r EXCEPT !.effects = Append(@, [type |-> "fetch", provider |-> provider,
                                     method |-> <<"POST">>, url |-> url,
                                     headers |-> headers, body |-> body]),
              !.pc = "fetching"]

\* callGeminiAPI and callClaudeAPI up to await fetch (lines 116-130,
\* 145-158); callBedrockAPI up to the first await of signAwsRequest (lines
\* 173-185 and 45-53).
CallProvider(r, clk) ==
    CASE CalledProvider(r) = "gemini" ->
            Fetch(r, "gemini",
                  <<"https://", "generativelanguage.googleapis.com", SLASH,
                    "generateContent", "?", "key=">> \o r.settings.gemini_api_key,
                  [n \in {"Content-Type"} |-> <<"application/json">>],
                  <<LBRACE, "prompt", RBRACE>>)
      [] CalledProvider(r) = "claude" ->
            Fetch(r, "claude",
                  <<"https://", "api.anthropic.com", SLASH, "v1", SLASH,
                    "messages">>,
                  [n \in {"Content-Type", "x-api-key", "anthropic-version"} |->
                      IF n = "Content-Type" THEN <<"application/json">>
                      ELSE IF n = "x-api-key" THEN r.settings.claude_api_key
                      ELSE <<"2023-06-01">>],
                  <<LBRACE, "prompt", RBRACE>>)
      [] CalledProvider(r) = "bedrock" ->
            [r EXCEPT !.sign =
                        SignStep(NewCall(
                            [BaseArgs EXCEPT
                                !.body = <<LBRACE, "prompt", RBRACE>>,
                                !.accessKey = r.settings.aws_access_key,
                                !.secretKey = r.settings.aws_secret_key]), clk),
                      !.pc = "signing"]

\* A variant without the outer try: the error of req.json() ends the
\* handler with no response.
HandleBodyUncaught(r, e, clk) ==
    IF ~e.readable
    THEN [r EXCEPT !.body.readable = FALSE, !.pc = "responded"]
    ELSE IF ~e.given
         THEN Respond([r EXCEPT !.body = e], 400, [error |-> <<"Missing">>])
    ELSE CallProvider([r EXCEPT !.body = e], clk)

\* Lines 259-293: the request body; then the provider is called.
HandleBody(r, e, clk) ==
    IF ~e.readable
    THEN Catch([r EXCEPT !.body.readable = FALSE],
               <<"Unexpected end of JSON input">>)
    ELSE IF ~e.given
         THEN Respond([r EXCEPT !.body = e], 400, [error |-> <<"Missing">>])
    ELSE CallProvider([r EXCEPT !.body = e], clk)

\* A variant of callBedrockAPI that sends the request without the headers
\* of the signer.
HandleSigningUnsigned(r, clk) ==
    LET s == SignStep(r.sign, clk)
    IN  IF s.pc # "done" THEN [r EXCEPT !.sign = s]
        ELSE Fetch([r EXCEPT !.sign = s], "bedrock", s.in.url,
                   [n \in {"Content-Type"} |-> <<"application/json">>],
                   s.in.body)

\* A variant of callBedrockAPI that writes the body anew for fetch, with
\* one member more than the body it has signed.
HandleSigningOtherBody(r, clk) ==
    LET s == SignStep(r.sign, clk)
        headers ==
            IF r.handler = "format-pricelist" THEN s.headers
            ELSE [n \in DOMAIN s.headers \cup {"x-api-key"} |->
                    IF n = "x-api-key" THEN r.settings.bedrock_api_key
                    ELSE s.headers[n]]
    IN  IF s.pc # "done" THEN [r EXCEPT !.sign = s]
        ELSE Fetch([r EXCEPT !.sign = s], "bedrock", s.in.url, headers,
                   <<LBRACE, "prompt", COMMA, "stream", RBRACE>>)

\* signAwsRequest goes on; when it has returned, callBedrockAPI adds the
\* x-api-key header (not in format-pricelist) and sends the request (lines
\* 185-191; part_001 lines 188-196).
HandleSigning(r, clk) ==
    LET s == SignStep(r.sign, clk)
        headers ==
            IF r.handler = "format-pricelist" THEN s.headers
            ELSE [n \in DOMAIN s.headers \cup {"x-api-key"} |->
                    IF n = "x-api-key" THEN r.settings.bedrock_api_key
                    ELSE s.headers[n]]
    IN  IF s.pc # "done" THEN [r EXCEPT !.sign = s]
        ELSE Fetch([r EXCEPT !.sign = s], "bedrock", s.in.url, headers,
                   s.in.body)

\* What the provider call hands back for the answer e of the provider
\* (lines 132-142, 160-170, 193-203; match-products lines 38-45, 61-68).
\* e.kind: "reject" (fetch fails), "notok" (an error status), "empty" (a
\* body without content), "text" (a body with the text e.text).
ProviderResult(r, e) ==
    LET threw(m) == [thrown |-> TRUE, text |-> <<>>, message |-> m]
        gave(t)  == [thrown |-> FALSE, text |-> t, message |-> <<>>]
    IN  CASE e.kind = "reject" -> threw(<<"fetch failed">>)
          [] e.kind = "notok" -> threw(<<CalledProvider(r), "API error">>)
          [] e.kind = "empty" ->
                IF r.handler = "match-products" THEN gave(<<>>)
                ELSE threw(<<"No response from", CalledProvider(r)>>)
          [] e.kind = "text" ->
                IF e.text # <<>> THEN gave(e.text)
                ELSE IF \/ r.handler = "match-products"
                        \/ (r.handler = "format-pricelist"
                            /\ CalledProvider(r) = "gemini")
                     THEN gave(<<>>)
                ELSE threw(<<"No response from", CalledProvider(r)>>)

\* The fallback answers of match-products (lines 146-200).
Fallback(body, missing) ==
    [matches |-> <<>>,
     newProducts |-> [i \in 1..Len(body.newProducts) |-> i - 1],
     missingIds |-> IF missing THEN body.existingProducts ELSE <<>>]

\* format-pricelist line 296: the fences with their language tags and one
\* line break are removed, from position i on.
RECURSIVE StripFormatFences(_, _)
StripFormatFences(t, i) ==
    LET word == {"n", "json", "seoTitle", "specs", "confident", "true",
                 "false", DIGIT}
        RECURSIVE SkipWord(_)
        SkipWord(j) == IF j <= Len(t) /\ t[j] \in word THEN SkipWord(j + 1)
                       ELSE j
        after == SkipWord(i + 1)
    IN  IF i > Len(t) THEN <<>>
        ELSE IF t[i] = FENCE
             THEN StripFormatFences(t, IF after <= Len(t) /\ t[after] = LF
                                       THEN after + 1 ELSE after)
        ELSE <<t[i]>> \o StripFormatFences(t, i + 1)

\* What follows the provider call, up to the next await or the response:
\* enrich-seo lines 218-232 of src/supabase/functions/enrich-seo/index.ts,
\* format-pricelist lines 295-303, match-products lines 160-200.
Recover(r, clk) ==
    CASE r.handler = "enrich-seo" ->
            LET result == parseAIResponse(r.responseText.s)
                rr == [r EXCEPT !.result = result]
            IN  IF result.status = "thrown" THEN Catch(rr, result.error)
                ELSE IF r.body.productId
                     THEN [rr EXCEPT
                             !.effects = Append(@,
                                 [type |-> "update",
                                  seo_title |-> result.value.seoTitle,
                                  specs |-> result.value.specs,
                                  updated_at |-> ToISOString(clk)]),
                             !.pc = "updating"]
                ELSE Respond(rr, 200, result.value)
      [] r.handler = "format-pricelist" ->
            Respond(r, 200,
                    [formattedText |->
                        Trim(StripFormatFences(r.responseText.s, 1))])
      [] r.handler = "match-products" ->
            LET jsonMatch == JsonMatch(Normalize(r.responseText.s))
                parsed == JSONParse(jsonMatch)
            IN  IF r.responseText.s = <<>>
                THEN Respond(r, 200, Fallback(r.body, TRUE))
                ELSE IF jsonMatch # <<>> /\ parsed.ok
                     THEN Respond(r, 200, parsed.obj)
                ELSE Respond(r, 200, Fallback(r.body, FALSE))

\* A variant that calls the provider again when the call has failed.
HandleFetchedRetries(r, e, clk) ==
    LET p == ProviderResult(r, e)
    IN  IF p.thrown THEN CallProvider(r, clk)
        ELSE Recover([r EXCEPT !.responseText = StrV(p.text)], clk)

\* A variant of enrich-seo that writes the row before it recovers the text.
HandleFetchedWritesFirst(r, e, clk) ==
    LET p == ProviderResult(r, e)
        w == [r EXCEPT !.effects = Append(@, [type |-> "update",
                                              seo_title |-> StrV(p.text),
                                              specs |-> StrV(p.text),
                                              updated_at |-> ToISOString(clk)])]
    IN  IF p.thrown
        THEN IF r.handler = "match-products"
             THEN Respond(r, 200, Fallback(r.body, TRUE))
             ELSE Catch(r, p.message)
        ELSE IF r.handler = "enrich-seo" /\ r.body.productId
             THEN Recover([w EXCEPT !.responseText = StrV(p.text)], clk)
        ELSE Recover([r EXCEPT !.responseText = StrV(p.text)], clk)

\* The provider has answered: the provider call returns or throws (to the
\* inner catch of match-products, lines 145-156, or to the outer catch),
\* and the handler goes on with the text.
HandleFetched(r, e, clk) ==
    LET p == ProviderResult(r, e)
    IN  IF p.thrown
        THEN IF r.handler = "match-products"
             THEN Respond(r, 200, Fallback(r.body, TRUE))
             ELSE Catch(r, p.message)
        ELSE Recover([r EXCEPT !.responseText = StrV(p.text)], clk)

\* enrich-seo lines 222-237: the update has ended; the result is returned.
HandleUpdated(r, e) ==
    IF e = "throws" THEN Catch(r, <<"update failed">>)
    ELSE Respond(r, 200, r.result.value)

(***************************************************************************)
(* One request to one handler, while the clock moves.                      *)
(***************************************************************************)
\* The texts a provider answers with: none, the object asked for between
\* fences, an answer cut off in the specs value, prose.
ProviderTexts ==
    {<<>>,
     WrappedText(Source("wrapped",
                        Obj(StrV(<<"n">>), StrV(<<"n">>), BoolV(TRUE)),
                        <<>>, "json", <<>>, 1, FALSE)),
     ClippedText(Source("clipped", Obj(StrV(<<"n">>), StrV(<<"n">>), Undefined),
                        <<>>, "none", <<>>, 1, FALSE)),
     <<"n", SP, "n">>}

HandlerInit ==
    /\ req \in {NewRequest(h, b) : h \in Handlers, b \in BOOLEAN}
    /\ clock = 0
    /\ call = <<>>
    /\ src = NoSource
    /\ text = <<>>
    /\ pc = "idle"
    /\ out = Pending

Received ==
    /\ req.pc = "received"
    /\ \E e \in [method : {"POST", "OPTIONS"}, authHeader : BOOLEAN] :
          req' = HandleReceived(req, e)
    /\ UNCHANGED <<clock, call, src, text, pc, out>>

GetUser ==
    /\ req.pc = "getUser"
    /\ \E e \in {"user", "none", "throws"} : req' = HandleGetUser(req, e)
    /\ UNCHANGED <<clock, call, src, text, pc, out>>

GetSettings ==
    /\ req.pc = "settings"
    /\ \E e \in [ai_provider : {"", "gemini", "claude", "bedrock", "openai"},
                 gemini_api_key : {<<>>, <<"gk">>},
                 claude_api_key : {<<>>, <<"ck">>},
                 bedrock_api_key : {<<>>, <<"bk">>},
                 aws_access_key : {<<>>, <<"AKIDEXAMPLE">>},
                 aws_secret_key : {<<>>, <<"wJalr">>}] :
          req' = HandleSettings(req, e)
    /\ UNCHANGED <<clock, call, src, text, pc, out>>

ReadBody ==
    /\ req.pc = "body"
    /\ \E e \in [readable : BOOLEAN, given : BOOLEAN, productId : BOOLEAN,
                 existingProducts : {<<>>, <<"e1", "e2">>},
                 newProducts : {<<"p0", "p1">>}] :
          req' = HandleBody(req, e, clock)
    /\ UNCHANGED <<clock, call, src, text, pc, out>>

Signing ==
    /\ req.pc = "signing"
    /\ req' = HandleSigning(req, clock)
    /\ UNCHANGED <<clock, call, src, text, pc, out>>

Fetched ==
    /\ req.pc = "fetching"
    /\ \E e \in [kind : {"reject", "notok", "empty"}, text : {<<>>}]
                \cup [kind : {"text"}, text : ProviderTexts] :
          req' = HandleFetched(req, e, clock)
    /\ UNCHANGED <<clock, call, src, text, pc, out>>

Updated ==
    /\ req.pc = "updating"
    /\ \E e \in {"resolves", "throws"} : req' = HandleUpdated(req, e)
    /\ UNCHANGED <<clock, call, src, text, pc, out>>

HandlerNext ==
    \/ Tick
    \/ Received
    \/ GetUser
    \/ GetSettings
    \/ ReadBody
    \/ Signing
    \/ Fetched
    \/ Updated

HandlerSpec == HandlerInit /\ [][HandlerNext]_vars

(***************************************************************************)
(* Vocabulary of the claims about the handlers.                            *)
(***************************************************************************)
EffectsOf(type) == SelectSeq(req.effects, LAMBDA x : x.type = type)

Responded == req.pc = "responded"

\* The provider call of the request has thrown: a request was sent, the
\* handler has answered, and responseText was never assigned.
ProviderFailed ==
    /\ Responded
    /\ EffectsOf("fetch") # <<>>
    /\ req.responseText = Undefined

\* A provider request that goes to the Bedrock runtime.
ToBedrock(f) == "bedrock-runtime" \in Atoms(f.url)

(***************************************************************************)
(* C16: a provider request carries the X-Amz-Date header and the           *)
(* signature Authorization header exactly when it goes to Bedrock: the     *)
(* requests to Gemini and Claude never carry them, every request to        *)
(* Bedrock carries the ones signAwsRequest has returned, and the signer    *)
(* runs for no other provider.                                             *)
(***************************************************************************)
C16_SignedOnlyForBedrock ==
    /\ \A k \in 1..Len(EffectsOf("fetch")) :
          LET f == EffectsOf("fetch")[k]
          IN  IF ToBedrock(f)
              THEN /\ f.provider = "bedrock"
                   /\ req.sign.pc = "done"
                   /\ {"X-Amz-Date", "Authorization"} \subseteq DOMAIN f.headers
                   /\ f.headers["X-Amz-Date"] = req.sign.amzDate
                   /\ f.headers["Authorization"] =
                         AuthorizationHeader(req.sign.in.accessKey,
                                             req.sign.credentialScope,
                                             req.sign.signature)
              ELSE /\ f.provider \in {"gemini", "claude"}
                   /\ {"X-Amz-Date", "Authorization"} \cap DOMAIN f.headers = {}
    /\ req.sign.pc # "start" => CalledProvider(req) = "bedrock"
    /\ (req.pc = "fetching" /\ CalledProvider(req) = "bedrock")
          => (EffectsOf("fetch") # <<>> /\ ToBedrock(EffectsOf("fetch")[1]))

\* A signed request has gone to Bedrock and the handler has answered.
C16_Witness ==
    /\ Responded
    /\ Len(EffectsOf("fetch")) = 1
    /\ ToBedrock(EffectsOf("fetch")[1])
    /\ "x-api-key" \in DOMAIN EffectsOf("fetch")[1].headers
    /\ EffectsOf("fetch")[1].headers["X-Amz-Date"] = req.sign.amzDate

(***************************************************************************)
(* C17: in the enrich-seo handler the effects come in the order provider   *)
(* request, database update, response: the row is written only after the   *)
(* provider has answered with a text and parseAIResponse has returned a    *)
(* result, with the fields of that result, and before the response; when   *)
(* the provider call or the recovery fails there is no update and the      *)
(* response is an error of status 500.                                     *)
(***************************************************************************)
C17_EnrichOrder ==
    req.handler = "enrich-seo" =>
        LET types == [k \in 1..Len(req.effects) |-> req.effects[k].type]
        IN  /\ types \in {<<>>, <<"response">>, <<"fetch">>,
                          <<"fetch", "response">>, <<"fetch", "update">>,
                          <<"fetch", "update", "response">>}
            /\ EffectsOf("update") # <<>> =>
                  /\ req.responseText.t = "string"
                  /\ req.result = parseAIResponse(req.responseText.s)
                  /\ req.result.status = "returned"
                  /\ EffectsOf("update")[1].seo_title = req.result.value.seoTitle
                  /\ EffectsOf("update")[1].specs = req.result.value.specs
            /\ (ProviderFailed \/ req.result.status = "thrown") =>
                  /\ EffectsOf("update") = <<>>
                  /\ Responded
                  /\ EffectsOf("response")[1].status = 500
                  /\ req.result.status = "thrown" =>
                        EffectsOf("response")[1].body = [error |-> ErrorMessage]

\* The enrich-seo handler has called the provider, recovered a result from
\* a text that was cut off, written the row and answered with the result.
C17_Witness ==
    /\ req.handler = "enrich-seo"
    /\ Responded
    /\ Len(req.effects) = 3
    /\ req.effects[2].type = "update"
    /\ req.result.path = "manual"
    /\ req.effects[3].status = 200
    /\ req.effects[3].body = req.result.value

(***************************************************************************)
(* C18: a handler sends at most one provider request while it works on a   *)
(* request; when the provider call or the recovery fails the request has   *)
(* ended with exactly one response, an error or a fallback, and no second  *)
(* provider request.                                                       *)
(***************************************************************************)
C18_NoRetry ==
    /\ Len(EffectsOf("fetch")) <= 1
    /\ Len(EffectsOf("response")) <= 1
    /\ Responded <=> Len(EffectsOf("response")) = 1
    /\ Responded => req.effects[Len(req.effects)].type = "response"
    /\ req.result.status = "thrown" => Responded
    /\ (ProviderFailed \/ req.result.status = "thrown") =>
          /\ Len(EffectsOf("fetch")) = 1
          /\ EffectsOf("response")[1].status =
                (IF req.handler = "match-products" THEN 200 ELSE 500)

\* The provider has answered with an error status, and the handler has
\* ended the request with an error after its one provider request.
C18_Witness ==
    /\ req.handler = "enrich-seo"
    /\ ProviderFailed
    /\ Len(req.effects) = 2
    /\ req.effects[2].body = [error |-> <<"claude", "API error">>]

ScopeOf(c) ==
    Sub(AmzDate(c.now), 1, 8) \o <<SLASH>> \o c.in.region \o <<SLASH>>
    \o c.in.service \o <<SLASH, "aws4_request">>

\* The url without its query.
UrlBeforeQuery(url) == Sub(url, 1, FirstOf(url, 2, {"?"}) - 1)

(***************************************************************************)
(* C21: the canonical request of a call is, joined by line feeds: the      *)
(* method, the path of the url, an empty line for the query, the headers   *)
(* block content-type:application/json, host:<host>, x-amz-date:<time>     *)
(* (each ended by a line feed), the list content-type;host;x-amz-date and  *)
(* the hex hash of the body.  The query line is empty whatever the url:    *)
(* two calls whose urls differ in the query only, with the same other      *)
(* arguments and the same timestamp, have the same canonical request.      *)
(***************************************************************************)
C21_CanonicalRequest ==
    /\ \A i \in Calls :
          LET c == call[i]
              url == c.in.url
              hostEnd == FirstOf(url, 2, {SLASH, "?", "#"}) - 1
              pathEnd == FirstOf(url, 2, {"?", "#"}) - 1
          IN  PcRank(c.pc) >= 2 =>
                 c.canonicalRequest =
                     c.in.method \o <<LF>>
                     \o Sub(url, hostEnd + 1, pathEnd) \o <<LF>>
                     \o <<LF>>
                     \o <<"content-type:application/json", LF>>
                     \o <<"host:">> \o Sub(url, 2, hostEnd) \o <<LF>>
                     \o <<"x-amz-date:">> \o AmzDate(c.now) \o <<LF>>
                     \o <<LF>>
                     \o <<"content-type;host;x-amz-date", LF>>
                     \o Sha256(c.in.body)
    /\ \A i, j \in Calls :
          /\ PcRank(call[i].pc) >= 2
          /\ PcRank(call[j].pc) >= 2
          /\ UrlBeforeQuery(call[i].in.url) = UrlBeforeQuery(call[j].in.url)
          /\ [call[i].in EXCEPT !.url = call[j].in.url] = call[j].in
          /\ AmzDate(call[i].now) = AmzDate(call[j].now)
          => call[i].canonicalRequest = call[j].canonicalRequest

\* A call for a url with a query and one for the same url without it have
\* built their canonical requests, which are the same.
C21_Witness ==
    /\ PcRank(call["a"].pc) >= 2
    /\ PcRank(call["b"].pc) >= 2
    /\ call["a"].in = BaseArgs
    /\ call["b"].in.url = BaseArgs.url \o <<"?", "x">>
    /\ call["a"].now = 1
    /\ call["b"].now = 2
    /\ call["a"].canonicalRequest = call["b"].canonicalRequest

(***************************************************************************)
(* C22: the signature is the hex writing of HMAC(kSigning, stringToSign).  *)
(* kSigning is the last of four HMACs, each keyed by the bytes the one     *)
(* before gave (not by their hex writing): of the date under the key       *)
(* "AWS4" + secretKey, of the region, of the service, of "aws4_request".   *)
(* stringToSign is, joined by line feeds, the algorithm literal, the       *)
(* timestamp, the credential scope and the hex hash of the canonical       *)
(* request.  The keys are these at every await of the derivation.          *)
(***************************************************************************)
C22_KeyChain ==
    \A i \in Calls :
        LET c == call[i]
            ts == AmzDate(c.now)
            kDate == HmacSha256(Utf8(<<"AWS4">> \o c.in.secretKey),
                                Sub(ts, 1, 8))
            kRegion == HmacSha256(kDate, c.in.region)
            kService == HmacSha256(kRegion, c.in.service)
            kSigning == HmacSha256(kService, <<"aws4_request">>)
            toSign == <<"AWS4-HMAC-SHA256", LF>> \o ts \o <<LF>>
                      \o ScopeOf(c) \o <<LF>> \o Sha256(c.canonicalRequest)
        IN  /\ PcRank(c.pc) >= 3 => c.stringToSign = toSign
            /\ c.pc = "kRegion" => c.key = kDate
            /\ c.pc = "kService" => c.key = kRegion
            /\ c.pc = "kSigning" => c.key = kService
            /\ c.pc = "signature" => c.key = kSigning
            /\ c.pc = "done" =>
                  /\ c.signature = ToHex(HmacSha256(kSigning, toSign))
                  /\ SignatureOf(i) = c.signature

\* A call with another secret key has returned its signature while the
\* other call is in the middle of its key derivation.
C22_Witness ==
    /\ Signed("a")
    /\ call["a"].in.secretKey = <<"other">>
    /\ Holds(SignatureOf("a"), <<"AWS4", "other">>)
    /\ call["b"].pc = "kService"
    /\ call["b"].in.region = <<"eu-west-1">>

(***************************************************************************)
(* C23: the Authorization header of a call that has returned reads         *)
(*   AWS4-HMAC-SHA256 Credential=<accessKey>/<date>/<region>/<service>/    *)
(*   aws4_request, SignedHeaders=content-type;host;x-amz-date,             *)
(*   Signature=<signature>                                                 *)
(* where the credential scope is the third line of the string that was     *)
(* signed and the signature is a lowercase hex writing.                    *)
(***************************************************************************)
C23_AuthorizationForm ==
    \A i \in Calls :
        LET c == call[i]
            ts == AmzDate(c.now)
        IN  Signed(i) =>
               /\ c.headers["Authorization"] =
                      <<"AWS4-HMAC-SHA256", SP, "Credential=">>
                      \o c.in.accessKey \o <<SLASH>> \o ScopeOf(c)
                      \o <<COMMA, SP, "SignedHeaders=",
                           "content-type;host;x-amz-date">>
                      \o <<COMMA, SP, "Signature=">> \o c.signature
               /\ IsPrefix(<<"AWS4-HMAC-SHA256", LF>> \o ts \o <<LF>>
                           \o ScopeOf(c) \o <<LF>>, c.stringToSign)
               /\ c.signature[1] = "hex("
               /\ c.signature[Len(c.signature)] = ")hex"

\* A call for another access key and one for another region have returned.
C23_Witness ==
    /\ Signed("a")
    /\ Signed("b")
    /\ call["a"].in.accessKey = <<"AKIDOTHER">>
    /\ call["b"].in.region = <<"eu-west-1">>
    /\ call["a"].now = 0
    /\ call["b"].now = 3

(***************************************************************************)
(* The recovery at work on answers in the prompt's format that the strict  *)
(* path may refuse: the object is written as the prompt shows it, inside a *)
(* code fence or not, and after the opening quote of specs comes a run of  *)
(* pieces: plain text, the escapes \n and \", a quote and a brace, and the *)
(* end of the specs string with the confident member and the closing       *)
(* brace.  In src, obj.seoTitle holds the text between the quotes of       *)
(* seoTitle as it is written, obj.specs all that follows the opening quote *)
(* of specs, fence the language tag of the opening fence ("none": no       *)
(* fence) and post the closing fence.                                      *)
(***************************************************************************)
MaxTitlePieces == 2
MaxRestPieces == 3

TitlePieces == {<<"n">>, <<BSLASH, "n">>, <<BSLASH, QUOTE>>}

RestPieces ==
    {<<"n">>, <<BSLASH, "n">>, <<BSLASH, QUOTE>>, CloseMarker,
     ConfidentMarker \o <<COLON, SP, "true", RBRACE>>}

\* The texts made of at most n pieces of S.
RECURSIVE Runs(_, _)
Runs(S, n) ==
    IF n = 0 THEN {<<>>}
    ELSE Runs(S, n - 1) \cup {p \o q : p \in S, q \in Runs(S, n - 1)}

LanguageTags == {"json", "js"}

FallbackText(from) ==
    (IF from.fence = "none" THEN <<>> ELSE <<FENCE, from.fence, LF>>)
    \o <<LBRACE, QUOTE, "seoTitle", QUOTE, COLON, SP, QUOTE>>
    \o from.obj.seoTitle.s
    \o <<QUOTE, COMMA, SP, QUOTE, "specs", QUOTE, COLON, SP, QUOTE>>
    \o from.obj.specs.s \o from.post

InitFallback ==
    \E title \in Runs(TitlePieces, MaxTitlePieces),
       rest \in Runs(RestPieces, MaxRestPieces),
       tag \in LanguageTags \cup {"none"},
       closing \in {<<>>, <<LF, FENCE>>} :
        /\ tag = "none" => closing = <<>>
        /\ src = Source("fallback", Obj(StrV(title), StrV(rest), Undefined),
                        <<>>, tag, closing, 1, FALSE)
        /\ text = FallbackText(src)

RecoveryInit ==
    /\ InitFallback
    /\ pc = "called"
    /\ out = Pending
    /\ clock = 0
    /\ call = <<>>
    /\ req = <<>>

RecoverySpec == RecoveryInit /\ [][Next]_vars

(***************************************************************************)
(* Vocabulary of the claims about the fallback.                            *)
(***************************************************************************)
ManualResultOf == ReturnedResult /\ out.path = "manual"

\* Where the value of specs starts in the normalised text t of such an
\* answer: after the key, the colon, the space and the opening quote.
SpecsValueStart(t) ==
    IndexOf(t, <<QUOTE, "specs", QUOTE, COLON, SP, QUOTE>>, 1) + 6

(***************************************************************************)
(* C24, as stated: in a result of the manual extraction, specs is the text *)
(* from the start of its value up to the earliest of: the marker           *)
(* ", "confident" - a closing "} - the end of the text.                    *)
(***************************************************************************)
C24_EarliestOfThree ==
    (ManualResultOf /\ src.family = "fallback") =>
        LET t == Normalize(text)
            start == SpecsValueStart(t)
            ends == ({IndexOf(t, ConfidentMarker, start),
                      IndexOf(t, CloseMarker, start)} \ {0})
                    \cup {Len(t) + 1}
            end == CHOOSE i \in ends : \A j \in ends : i <= j
        IN  out.value.specs.s = ManualSpecs(Sub(t, start, end - 1))

(***************************************************************************)
(* C24, amended: specs runs up to the first marker ", "confident" after    *)
(* the start of its value when there is one, also when a "} stands before  *)
(* it; with no such marker, up to the first "}; with neither, to the end   *)
(* of the text.                                                            *)
(***************************************************************************)
C24_MarkerFirst ==
    (ManualResultOf /\ src.family = "fallback") =>
        LET t == Normalize(text)
            start == SpecsValueStart(t)
            marker == IndexOf(t, ConfidentMarker, start)
            close == IndexOf(t, CloseMarker, start)
            end == IF marker # 0 THEN marker
                   ELSE IF close # 0 THEN close
                   ELSE Len(t) + 1
        IN  out.value.specs.s = ManualSpecs(Sub(t, start, end - 1))

\* The specs of an answer holds a "} and ends at the confident member; the
\* fallback has returned it whole, the "} included.
C24_Witness ==
    /\ ManualResultOf
    /\ src.family = "fallback"
    /\ src.fence = "json"
    /\ SrcSpecs = <<"n">> \o CloseMarker \o ConfidentMarker
                  \o <<COLON, SP, "true", RBRACE>>
    /\ out.value.specs.s = <<"n">> \o CloseMarker

(***************************************************************************)
(* C25, as stated: in a result of the manual extraction, every \" of the   *)
(* extracted seoTitle and specs has become a quote and every \n a single   *)
(* space.                                                                  *)
(***************************************************************************)
C25_NewlinesCollapsed ==
    (ManualResultOf /\ src.family = "fallback") =>
        LET t == Normalize(text)
            collapsed(s) ==
                ReplacePair(ReplacePair(s, BSLASH, QUOTE, <<QUOTE>>),
                            BSLASH, "n", <<SP>>)
        IN  /\ out.value.seoTitle.s = collapsed(SeoTitleMatch(t).group)
            /\ out.value.specs.s = collapsed(SpecsText(t))

(***************************************************************************)
(* C25, amended: every \" of the extracted seoTitle and specs has become a *)
(* quote; every \n has become a single space in seoTitle and a line feed   *)
(* in specs, as on the strict path.                                        *)
(***************************************************************************)
C25_TitleCollapsedSpecsBroken ==
    (ManualResultOf /\ src.family = "fallback") =>
        LET t == Normalize(text)
        IN  /\ out.value.seoTitle.s =
                  ReplacePair(ReplacePair(SeoTitleMatch(t).group,
                                          BSLASH, QUOTE, <<QUOTE>>),
                              BSLASH, "n", <<SP>>)
            /\ out.value.specs.s =
                  ReplacePair(ReplacePair(SpecsText(t), BSLASH, "n", <<LF>>),
                              BSLASH, QUOTE, <<QUOTE>>)

\* An answer cut off in specs, with \" and \n in both fields, has been
\* recovered: a space in seoTitle, a line feed in specs.
C25_Witness ==
    /\ ManualResultOf
    /\ src.family = "fallback"
    /\ SrcTitle = <<BSLASH, QUOTE, BSLASH, "n">>
    /\ SrcSpecs = <<"n", BSLASH, "n", BSLASH, QUOTE>>
    /\ out.value.seoTitle.s = <<QUOTE, SP>>
    /\ out.value.specs.s = <<"n", LF, QUOTE>>

(***************************************************************************)
(* C26: normalisation takes away every code fence with its language tag,   *)
(* whatever the tag: the normalised text of a fenced object begins with    *)
(* the opening brace.                                                      *)
(***************************************************************************)
C26_AnyTagStripped ==
    (Done /\ src.family = "fallback" /\ src.fence # "none") =>
        LET t == Normalize(text)
        IN  t # <<>> /\ t[1] = LBRACE

(***************************************************************************)
(* Vocabulary of the claims about what the handlers answer.                *)
(***************************************************************************)
\* The response of a request that has been answered.
ResponseOf == EffectsOf("response")[1]

\* The settings of the request hold what a call of provider needs: the key
\* of Gemini or of Claude, the access key and the secret key of AWS (and
\* the API key the Bedrock request of enrich-seo and match-products
\* carries).
HasCredential(provider) ==
    CASE provider = "gemini" -> req.settings.gemini_api_key # <<>>
      [] provider = "claude" -> req.settings.claude_api_key # <<>>
      [] provider = "bedrock" ->
            /\ req.settings.aws_access_key # <<>>
            /\ req.settings.aws_secret_key # <<>>
            /\ req.handler # "format-pricelist"
                  => req.settings.bedrock_api_key # <<>>

\* The handler has read the settings row.
SettingsRead == req.aiProvider # ""

(***************************************************************************)
(* C27: a provider is called only with its credential configured.  Once    *)
(* the settings are read, whatever the value of ai_provider, a request     *)
(* whose provider (the one the handler would call) has no credential is    *)
(* answered with status 400, and nothing is sent to a provider.            *)
(***************************************************************************)
C27_CredentialBeforeCall ==
    /\ \A k \in 1..Len(EffectsOf("fetch")) :
          HasCredential(EffectsOf("fetch")[k].provider)
    /\ req.sign.pc # "start" => HasCredential("bedrock")
    /\ (SettingsRead /\ ~HasCredential(CalledProvider(req))) =>
          /\ Responded
          /\ ResponseOf.status = 400
          /\ EffectsOf("fetch") = <<>>

(***************************************************************************)
(* C28: the request callBedrockAPI sends is the request it has signed.     *)
(* The method, the url and the body given to fetch are those given to      *)
(* signAwsRequest; the X-Amz-Date and Content-Type headers sent are the    *)
(* ones written into the canonical request, as is the host of the url;     *)
(* the headers sent are those the signer returned, with at most x-api-key  *)
(* added.                                                                  *)
(***************************************************************************)
C28_DispatchedIsSigned ==
    \A k \in 1..Len(EffectsOf("fetch")) :
        LET f == EffectsOf("fetch")[k]
            s == req.sign
        IN  ToBedrock(f) =>
               /\ s.pc = "done"
               /\ f.method = s.in.method
               /\ f.url = s.in.url
               /\ f.body = s.in.body
               /\ Holds(s.canonicalRequest, <<LF>> \o Sha256(f.body))
               /\ Holds(s.canonicalRequest,
                        <<LF, "host:">> \o UrlHost(f.url) \o <<LF>>)
               /\ Holds(s.canonicalRequest,
                        <<LF, "x-amz-date:">> \o f.headers["X-Amz-Date"]
                        \o <<LF>>)
               /\ f.headers["Content-Type"] = <<"application/json">>
               /\ Holds(s.canonicalRequest,
                        <<LF, "content-type:application/json", LF>>)
               /\ DOMAIN f.headers \ {"x-api-key"} = DOMAIN s.headers
               /\ \A n \in DOMAIN s.headers : f.headers[n] = s.headers[n]

\* A signed request with the x-api-key header added has gone to Bedrock,
\* after the clock has moved on from the instant that was signed.
C28_Witness ==
    /\ req.pc = "fetching"
    /\ req.handler = "match-products"
    /\ Len(EffectsOf("fetch")) = 1
    /\ ToBedrock(EffectsOf("fetch")[1])
    /\ EffectsOf("fetch")[1].headers["x-api-key"] = <<"bk">>
    /\ req.sign.now = 1
    /\ clock = 3

C30_FallbacksAgree ==
    (/\ Responded
     /\ req.handler = "match-products"
     /\ EffectsOf("fetch") # <<>>
     /\ \/ req.responseText = Undefined
        \/ req.responseText.s = <<>>
        \/ ~JSONParse(JsonMatch(Normalize(req.responseText.s))).ok) =>
        /\ ResponseOf.status = 200
        /\ ResponseOf.body =
              [matches |-> <<>>,
               newProducts |->
                  [i \in 1..Len(req.body.newProducts) |-> i - 1],
               missingIds |-> req.body.existingProducts]

=============================================================================
